---- MODULE Spec2Model ----
(***************************************************************************)
(* Governance / reliability core of the Virtual AI Manager backend:        *)
(* PlatformEnterpriseAgent (backend/app/agents/platform_enterprise.py)     *)
(* over the tables of backend/app/models.py.                               *)
(*                                                                         *)
(* Tables are sequences of rows in insertion order.  Strings that the code *)
(* takes apart (permission names) are sequences of tokens in which ":" is  *)
(* a token of its own.  Time is counted in hours.                          *)
(***************************************************************************)
EXTENDS Integers, Sequences, FiniteSets, TLC

VARIABLES
    users,              \* table users: user id -> row, or NoRow
    approval_requests,  \* table approval_requests, a row's id is its index
    operation_locks,    \* table operation_locks
    audit_logs,         \* table audit_logs (committed rows only)
    now,                \* datetime.utcnow()
    sess,               \* request handlers in flight: session -> locals
    ret,                \* the last call that returned, with its result
    proceeds,           \* history: proceed signals returned per operation_id
    last_complete,      \* history: arguments of the last complete that found its lock
    system_states,      \* table system_states
    state_calls,        \* history: the save and rollback calls that wrote, per key
    retry               \* execute_with_retry: its locals, the calls of the operation, the sleeps

vars == <<users, approval_requests, operation_locks, audit_logs, now, sess,
          ret, proceeds, last_complete, system_states,
          state_calls, retry>>

----------------------------------------------------------------------------
(* Bounds *)

MaxTime == 50
MaxAudit == 2
MaxApprovals == 1
NumSessions == 2
MaxWrites == 5
MaxRaceWrites == 3
MaxRetriesArg == 4
MaxLimit == 2
MaxLogged == 2
MaxPending == 2
MaxCreated == 2

TickSteps == {25}
Sessions == 1..NumSessions

NULL == "NULL"
\* a text of one token, and None (or "") for a text-valued argument or column
Text(x) == <<x>>
NoText == <<>>
NoTime == -1
NoVersion == -1
StateKeys == {"k1", "k2"}
NoRow == [absent |-> TRUE]
NoCall == [call |-> "none"]
Idle == [pc |-> "idle"]

----------------------------------------------------------------------------
(* Python values and their JSON text (json.dumps / json.loads) *)

PyNone == [type |-> "NoneType", items |-> {}]
PyEmptyDict == [type |-> "dict", items |-> {}]
PySent == [type |-> "dict", items |-> {<<"status", "sent">>}]
PyFailed == [type |-> "dict", items |-> {<<"error", "timeout">>}]

PyEmptyStr == [type |-> "str", items |-> {}]
PyFalse == [type |-> "bool", items |-> {}]

ResultValues == {PyEmptyDict, PySent}

json_dumps(v) ==
    CASE v = PyNone -> "null"
      [] v = PyEmptyDict -> "{}"
      [] v = PySent -> "{\"status\": \"sent\"}"
      [] v = PyFailed -> "{\"error\": \"timeout\"}"
      [] v = PyEmptyStr -> "\"\""
      [] v = PyFalse -> "false"

json_loads(t) ==
    CASE t = "null" -> PyNone
      [] t = "{}" -> PyEmptyDict
      [] t = "{\"status\": \"sent\"}" -> PySent
      [] t = "{\"error\": \"timeout\"}" -> PyFailed
      [] t = "\"\"" -> PyEmptyStr
      [] t = "false" -> PyFalse

\* Python truthiness of a nullable Text column
Truthy(t) == t # NULL /\ t # ""

----------------------------------------------------------------------------
(* Query helpers *)

Found(row) == row # NoRow

----------------------------------------------------------------------------
(* RBAC: users, ROLE_PERMISSIONS, check_permission *)

\* a permission string as its tokens, ":" being a token: "task:create"
Perm(category, name) == <<category, ":", name>>
Star == <<"*">>

ROLE_PERMISSIONS ==
    [admin |-> {Star},
     manager |-> {Perm("read", "*"), Perm("create", "*"), Perm("update", "*"),
                  Perm("approve", "leave"), Perm("approve", "assignment"),
                  Perm("manage", "team"), Perm("view", "reports")},
     contributor |-> {Perm("read", "*"), Perm("create", "task"),
                      Perm("update", "own_task"), Perm("create", "comment"),
                      Perm("update", "own_profile")},
     viewer |-> {Perm("read", "project"), Perm("read", "task"),
                 Perm("read", "report")}]

Roles == {"viewer", "contributor", "manager", "admin"}

\* role_hierarchy.index(role) in update_user_role
RoleIndex(role) ==
    CASE role = "viewer" -> 0
      [] role = "contributor" -> 1
      [] role = "manager" -> 2
      [] role = "admin" -> 3

UserIds == {"root", "mia", "cara", "vic", "ina", "gail"}
UnknownIds == {"ghost"}

\* a row of users; the users the handlers start from have the email
\* <name>@corp.example
UserRow(name, role, permissions, is_active) ==
    [name |-> name, email |-> <<name, "@corp.example">>, role |-> role,
     permissions |-> permissions, is_active |-> is_active]

\* the users table the handlers start from
InitUsers ==
    [root |-> UserRow("Root", "admin", NoText, TRUE),
     mia  |-> UserRow("Mia", "manager", NoText, TRUE),
     cara |-> UserRow("Cara", "contributor", NoText, TRUE),
     vic  |-> UserRow("Vic", "viewer", NoText, TRUE),
     ina  |-> UserRow("Ina", "admin", NoText, FALSE),
     gail |-> UserRow("Gail", "viewer", <<Perm("approve", "delete_data")>>, TRUE)]

\* db.query(User).filter(User.id == user_id).first()
QueryUser(usrs, user_id) ==
    IF user_id \in DOMAIN usrs THEN usrs[user_id] ELSE NoRow

\* ":" in permission
HasColon(permission) ==
    \E i \in 1..Len(permission) : permission[i] = ":"

\* mutant: the permission is not split
SplitFirst_whole(permission) == permission

\* permission.split(":")[0]
SplitFirst(permission) ==
    IF HasColon(permission)
    THEN SubSeq(permission, 1,
                (CHOOSE i \in 1..Len(permission) :
                    /\ permission[i] = ":"
                    /\ \A j \in 1..(i-1) : permission[j] # ":") - 1)
    ELSE permission

\* f"{perm_category}:*"
CategoryWildcard(permission) ==
    (IF HasColon(permission) THEN SplitFirst(permission) ELSE permission)
        \o <<":", "*">>

\* json.loads(user.permissions or "[]")
UserPerms(user) ==
    IF user.permissions = NoText THEN <<>> ELSE user.permissions

\* mutant: a grant "*" or "<category>:*" covers the permission
InList_wildcard(x, list) ==
    \E i \in 1..Len(list) : list[i] = x \/ list[i] = Star \/ list[i] = CategoryWildcard(x)

InList(x, list) == \E i \in 1..Len(list) : list[i] = x

\* mutant: the account is never taken to be inactive
IsInactive_never(user) == FALSE

\* not user.is_active
IsInactive(user) == ~user.is_active

\* AuditLog(...) as constructed by _log_audit; resource_id, changes, reason
\* and error_message are texts
AuditEntry(actor_id, actor_role, action, resource_type, resource_id, changes, reason, outcome) ==
    [actor_id |-> IF actor_id = NULL THEN "system" ELSE actor_id,
     actor_role |-> actor_role,
     action |-> action,
     resource_type |-> resource_type,
     resource_id |-> resource_id,
     changes |-> changes,
     reason |-> reason,
     outcome |-> outcome,
     error_message |-> NoText]

\* check_permission(user_id, permission): the dict returned, and in `audit`
\* the entries it has added to the session (not committed)
CheckPermission(usrs, user_id, permission) ==
    LET user == QueryUser(usrs, user_id) IN
    IF ~Found(user)
    THEN [allowed |-> FALSE, reason |-> Text("User not found"), role |-> NULL,
          via |-> NULL,
          audit |-> <<AuditEntry(user_id, NULL, "permission_check", "permission",
                                 NoText, NoText, Text("User not found"),
                                 "denied")>>]
    ELSE IF IsInactive(user)
    THEN [allowed |-> FALSE, reason |-> Text("Account inactive"), role |-> NULL,
          via |-> NULL,
          audit |-> <<AuditEntry(user_id, NULL, "permission_check", "permission",
                                 NoText, NoText, Text("User account inactive"),
                                 "denied")>>]
    ELSE IF Star \in ROLE_PERMISSIONS[user.role]
    THEN [allowed |-> TRUE, reason |-> NoText, role |-> user.role,
          via |-> NULL, audit |-> <<>>]
    ELSE IF permission \in ROLE_PERMISSIONS[user.role]
    THEN [allowed |-> TRUE, reason |-> NoText, role |-> user.role,
          via |-> NULL, audit |-> <<>>]
    ELSE IF CategoryWildcard(permission) \in ROLE_PERMISSIONS[user.role]
    THEN [allowed |-> TRUE, reason |-> NoText, role |-> user.role,
          via |-> NULL, audit |-> <<>>]
    ELSE IF InList(permission, UserPerms(user))
    THEN [allowed |-> TRUE, reason |-> NoText, role |-> user.role,
          via |-> "user_permission", audit |-> <<>>]
    ELSE [allowed |-> FALSE,
          reason |-> <<"Permission '">> \o permission \o <<"' not granted">>,
          role |-> user.role, via |-> NULL,
          audit |-> <<AuditEntry(user_id, user.role, "permission_check",
                                 "permission", permission, NoText,
                                 <<"Permission '">> \o permission
                                    \o <<"' not granted to role '", user.role, "'">>,
                                 "denied")>>]

\* mutant: the commit replaces the rows of the table
Commit_overwrite(audit, pending, t) ==
    [i \in 1..Len(pending) |-> pending[i] @@ [timestamp |-> t]]

\* db.commit(): the entries added to the session become rows, stamped by
\* the column default timestamp = datetime.utcnow
Commit(audit, pending, t) ==
    audit \o [i \in 1..Len(pending) |->
                 pending[i] @@ [timestamp |-> t]]

\* POST /check-permission: check_permission and the end of the request; the
\* handler never commits, its session is closed with the entries still pending
check_permission(user_id, permission) ==
    /\ ret' = [call |-> "check_permission", user_id |-> user_id,
               permission |-> permission,
               user |-> QueryUser(users, user_id),
               result |-> CheckPermission(users, user_id, permission)]
    /\ UNCHANGED <<system_states, state_calls, retry, users, approval_requests, operation_locks, audit_logs, now,
                   sess, proceeds, last_complete>>

----------------------------------------------------------------------------
(* APPROVAL WORKFLOWS: approval_requests *)

SENSITIVE_ACTIONS ==
    [delete_data |-> "critical",
     send_external_communication |-> "high",
     hire_decision |-> "critical",
     reject_candidate |-> "high",
     permission_change |-> "critical",
     bulk_update |-> "high",
     export_data |-> "medium",
     system_config_change |-> "critical"]

\* SENSITIVE_ACTIONS.get(action_type, ActionSensitivity.MEDIUM)
Sensitivity(action_type) ==
    IF action_type \in DOMAIN SENSITIVE_ACTIONS
    THEN SENSITIVE_ACTIONS[action_type]
    ELSE "medium"

DefaultExpiresInHours == 48

\* str(uuid.uuid4()): the id of the next row of a table of n rows
NewId(n) == ToString(n + 1)

\* ApprovalRequest(...) as constructed by create_approval_request
NewApproval(id, action_type, resource_type, resource_id, action_summary, requester_id, requester_name, is_reversible, expires_in_hours, t) ==
    [id |-> id,
     action_type |-> action_type,
     sensitivity |-> Sensitivity(action_type),
     resource_type |-> resource_type,
     resource_id |-> resource_id,
     action_summary |-> action_summary,
     is_reversible |-> is_reversible,
     requester_id |-> requester_id,
     requester_name |-> requester_name,
     requested_at |-> t,
     status |-> "pending",
     expires_at |-> t + expires_in_hours,
     resolved_by |-> NULL,
     resolved_at |-> NoTime,
     resolution_reason |-> NoText]

RequesterName(usrs, requester_id) ==
    IF Found(QueryUser(usrs, requester_id))
    THEN QueryUser(usrs, requester_id).name
    ELSE "Unknown"

\* the audit entry create_approval_request adds
CreateApprovalAudit(action_type, resource_type, resource_id, requester_id) ==
    AuditEntry(requester_id, NULL, "create_approval_request", resource_type,
               resource_id, NoText, NoText, "success")

\* the dict create_approval_request returns for the row with id `approval_id`
CreateApprovalResult(row) ==
    [error |-> NoText, approval_id |-> row.id,
     action_type |-> row.action_type, sensitivity |-> row.sensitivity,
     status |-> "pending", expires_at |-> row.expires_at]

\* create_approval_request(...): add the row and the audit entry, commit; the
\* tables hold at most max_approvals requests and max_audit entries
CreateApprovalRequest(max_approvals, max_audit, action_type, resource_type, resource_id, action_summary, requester_id, is_reversible, expires_in_hours) ==
    LET row == NewApproval(NewId(Len(approval_requests)), action_type, resource_type, resource_id, action_summary,
                           requester_id, RequesterName(users, requester_id),
                           is_reversible, expires_in_hours, now)
    IN  /\ Len(approval_requests) < max_approvals
        /\ Len(audit_logs) < max_audit
        /\ approval_requests' = Append(approval_requests, row)
        /\ audit_logs' = Commit(audit_logs,
                                <<CreateApprovalAudit(action_type, resource_type,
                                                      resource_id, requester_id)>>,
                                now)
        /\ ret' = [call |-> "create_approval_request",
                   result |-> CreateApprovalResult(row)]
        /\ UNCHANGED <<system_states, state_calls, retry, users, operation_locks, now, sess, proceeds, last_complete>>

create_approval_request(action_type, resource_type, resource_id, action_summary, requester_id, is_reversible, expires_in_hours) ==
    CreateApprovalRequest(MaxApprovals, MaxAudit, action_type, resource_type, resource_id, action_summary, requester_id, is_reversible, expires_in_hours)

\* mutant: no change of role counts as an escalation
IsEscalation_never(old_role, new_role) == FALSE

\* new_idx > old_idx
IsEscalation(old_role, new_role) == RoleIndex(new_role) > RoleIndex(old_role)

\* update_user_role(user_id, new_role, changed_by, reason)
update_user_role(user_id, new_role, changed_by, reason) ==
    LET user == QueryUser(users, user_id) IN
    IF ~Found(user)
    THEN /\ ret' = [call |-> "update_user_role", changed_by |-> changed_by, user_id |-> user_id,
                    new_role |-> new_role, user |-> user,
                    result |-> [error |-> Text("User not found")]]
         /\ UNCHANGED <<system_states, state_calls, retry, users, approval_requests, operation_locks, audit_logs,
                        now, sess, proceeds, last_complete>>
    ELSE IF IsEscalation(user.role, new_role)
    THEN LET row == NewApproval(NewId(Len(approval_requests)),
                                "permission_change", "user", Text(user_id),
                                <<"Escalate ", user.name, " from ", user.role,
                                  " to ", new_role>>,
                                changed_by, RequesterName(users, changed_by),
                                TRUE, DefaultExpiresInHours, now)
         IN  /\ Len(approval_requests) < MaxApprovals
             /\ Len(audit_logs) < MaxAudit
             /\ approval_requests' = Append(approval_requests, row)
             /\ audit_logs' = Commit(audit_logs,
                                     <<CreateApprovalAudit("permission_change", "user",
                                                           Text(user_id), changed_by)>>,
                                     now)
             /\ ret' = [call |-> "update_user_role", changed_by |-> changed_by, user_id |-> user_id,
                        new_role |-> new_role, user |-> user,
                        result |-> CreateApprovalResult(row)]
             /\ UNCHANGED <<system_states, state_calls, retry, users, operation_locks, now, sess, proceeds, last_complete>>
    ELSE /\ Len(audit_logs) < MaxAudit
         /\ users' = [users EXCEPT ![user_id].role = new_role]
         /\ audit_logs' = Commit(audit_logs,
                                 <<AuditEntry(changed_by, NULL, "update_role", "user",
                                              Text(user_id),
                                              <<"role", "from", user.role, "to", new_role>>,
                                              reason, "success")>>,
                                 now)
         /\ ret' = [call |-> "update_user_role", changed_by |-> changed_by, user_id |-> user_id,
                    new_role |-> new_role, user |-> user,
                    result |-> [error |-> NoText, user_id |-> user_id,
                                old_role |-> user.role, new_role |-> new_role,
                                status |-> "completed"]]
         /\ UNCHANGED <<system_states, state_calls, retry, approval_requests, operation_locks, now, sess, proceeds,
                        last_complete>>

\* db.query(ApprovalRequest).filter(ApprovalRequest.id == approval_id).first()
QueryApproval(approvals, approval_id) ==
    IF \E i \in 1..Len(approvals) : approvals[i].id = approval_id
    THEN approvals[CHOOSE i \in 1..Len(approvals) : approvals[i].id = approval_id]
    ELSE NoRow

\* the table with the row of id `approval_id` replaced by `row`
StoreApproval(approvals, approval_id, row) ==
    [i \in 1..Len(approvals) |->
        IF approvals[i].id = approval_id THEN row ELSE approvals[i]]

\* mutant: only an approved request counts as resolved
IsResolved_only_approved(approval) == approval.status = "approved"

\* mutant: the status is not looked at
IsResolved_never(approval) == FALSE

\* approval.status != ApprovalStatus.PENDING
IsResolved(approval) == approval.status # "pending"

\* mutant: the expiry is not looked at
IsExpired_never(approval, t) == FALSE

\* approval.expires_at < datetime.utcnow()
IsExpired(approval, t) == approval.expires_at < t

\* mutant: the approver is asked for the read permission
ApprovePermission_read(approval) == <<"read", ":", approval.action_type>>

\* f"approve:{approval.action_type}"
ApprovePermission(approval) == <<"approve", ":", approval.action_type>>

\* the row as process_approval writes it on a decision
Resolve(approval, approver_id, approved, reason, t) ==
    [approval EXCEPT
        !.status = IF approved THEN "approved" ELSE "rejected",
        !.resolved_by = approver_id,
        !.resolved_at = t,
        !.resolution_reason = reason]

ProcessCall(approval_id, approver_id, approved, reason, approval, result) ==
    [call |-> "process_approval", approval_id |-> approval_id,
     approver_id |-> approver_id, approved |-> approved, reason |-> reason,
     approval |-> approval, at |-> now, result |-> result]

\* process_approval(approval_id, approver_id, approved, reason); the audit
\* table holds at most max_audit entries
ProcessApproval(max_audit, approval_id, approver_id, approved, reason) ==
    LET approval == QueryApproval(approval_requests, approval_id) IN
    IF ~Found(approval)
    THEN /\ ret' = ProcessCall(approval_id, approver_id, approved, reason, approval,
                               [error |-> Text("Approval request not found")])
         /\ UNCHANGED <<system_states, state_calls, retry, users, approval_requests, operation_locks, audit_logs,
                        now, sess, proceeds, last_complete>>
    ELSE IF IsResolved(approval)
    THEN /\ ret' = ProcessCall(approval_id, approver_id, approved, reason, approval,
                               [error |-> <<"Approval already ", approval.status>>])
         /\ UNCHANGED <<system_states, state_calls, retry, users, approval_requests, operation_locks, audit_logs,
                        now, sess, proceeds, last_complete>>
    ELSE IF IsExpired(approval, now)
    THEN /\ approval_requests' =
                StoreApproval(approval_requests, approval_id,
                              [approval EXCEPT !.status = "expired"])
         /\ ret' = ProcessCall(approval_id, approver_id, approved, reason, approval,
                               [error |-> Text("Approval request has expired")])
         /\ UNCHANGED <<system_states, state_calls, retry, users, operation_locks, audit_logs, now, sess, proceeds,
                        last_complete>>
    ELSE IF ~CheckPermission(users, approver_id, ApprovePermission(approval)).allowed
    THEN /\ ret' = ProcessCall(approval_id, approver_id, approved, reason, approval,
                               [error |-> Text("Not authorized to approve this action")])
         /\ UNCHANGED <<system_states, state_calls, retry, users, approval_requests, operation_locks, audit_logs,
                        now, sess, proceeds, last_complete>>
    ELSE /\ Len(audit_logs) < max_audit
         /\ approval_requests' =
                StoreApproval(approval_requests, approval_id,
                              Resolve(approval, approver_id, approved, reason, now))
         /\ audit_logs' =
                Commit(audit_logs,
                       <<AuditEntry(approver_id, NULL,
                                    IF approved THEN "approve" ELSE "reject",
                                    "approval_request", Text(approval_id), NoText,
                                    reason, "success")>>,
                       now)
         /\ ret' = ProcessCall(approval_id, approver_id, approved, reason, approval,
                               [error |-> NoText, approval_id |-> approval_id,
                                status |-> IF approved THEN "approved" ELSE "rejected",
                                resolved_by |-> RequesterName(users, approver_id),
                                action_type |-> approval.action_type,
                                can_proceed |-> approved])
         /\ UNCHANGED <<system_states, state_calls, retry, users, operation_locks, now, sess, proceeds, last_complete>>

process_approval(approval_id, approver_id, approved, reason) ==
    ProcessApproval(MaxAudit, approval_id, approver_id, approved, reason)

----------------------------------------------------------------------------
(* Inputs of the governance handlers *)

Permissions ==
    {Perm("task", "create"), Perm("create", "task"), Perm("create", "user"),
     Perm("read", "project"), Perm("read", "budget"), Perm("update", "own_task"),
     Perm("approve", "leave"), Perm("approve", "delete_data"),
     Perm("manage", "team"), Perm("admin", "tools"),
     Star, <<"read">>, Perm("read", "*")}

ActionTypes == {"delete_data", "leave"}
ExpiresInHours == {25, DefaultExpiresInHours}
Requesters == {"cara"}
RoleChanges ==
    {<<"cara", "admin">>, <<"cara", "viewer">>, <<"root", "viewer">>,
     <<"root", "admin">>, <<"ghost", "viewer">>}
RoleChangers == {"root"}
Approvers == {"root", "mia", "ghost"}
Reasons == {Text("ok")}
ApprovalIds == {ToString(i) : i \in 1..(MaxApprovals + 1)}

----------------------------------------------------------------------------
(* IDEMPOTENCY: operation_locks *)

OperationIds == {"op1", "op2"}
OperationTypes == {"send_email"}
LockActors == {"root"}
LockTtlHours == 1

\* db.query(OperationLock).filter(operation_id == ...).first()
QueryLock(locks, operation_id) ==
    IF \E i \in 1..Len(locks) : locks[i].operation_id = operation_id
    THEN locks[CHOOSE i \in 1..Len(locks) :
                  /\ locks[i].operation_id = operation_id
                  /\ \A j \in 1..(i-1) : locks[j].operation_id # operation_id]
    ELSE NoRow

\* mutant: the column carries no unique constraint
UniqueViolation_off(locks, operation_id) == FALSE

\* Column(String, unique=True) on operation_locks.operation_id
UniqueViolation(locks, operation_id) ==
    \E i \in 1..Len(locks) : locks[i].operation_id = operation_id

\* OperationLock(...) as constructed by ensure_idempotent
NewLock(operation_id, operation_type, actor_id, t) ==
    [operation_id |-> operation_id,
     operation_type |-> operation_type,
     status |-> "in_progress",
     result |-> NULL,
     actor_id |-> actor_id,
     locked_at |-> t,
     expires_at |-> t + LockTtlHours,
     completed_at |-> NoTime]

\* mutant: the in_progress branch is missing
EnsureDuplicate_no_in_progress(existing) ==
    IF Found(existing) /\ existing.status = "completed"
    THEN [is_duplicate |-> TRUE, kind |-> "completed",
          original_result |-> IF Truthy(existing.result)
                              THEN json_loads(existing.result) ELSE PyNone,
          completed_at |-> existing.completed_at]
    ELSE NoRow

\* What ensure_idempotent returns for the row it read, before any insert
EnsureDuplicate(existing) ==
    IF Found(existing) /\ existing.status = "completed"
    THEN [is_duplicate |-> TRUE, kind |-> "completed",
          original_result |-> IF Truthy(existing.result)
                              THEN json_loads(existing.result) ELSE PyNone,
          completed_at |-> existing.completed_at]
    ELSE IF Found(existing) /\ existing.status = "in_progress"
    THEN [is_duplicate |-> TRUE, kind |-> "in_progress",
          original_result |-> PyNone, completed_at |-> NoTime]
    ELSE NoRow

\* The result of the insert and commit: proceed, or IntegrityError
EnsureInsertResult(locks, operation_id) ==
    IF UniqueViolation(locks, operation_id)
    THEN [kind |-> "raised", error |-> "IntegrityError"]
    ELSE [is_duplicate |-> FALSE, kind |-> "proceed",
          original_result |-> PyNone, completed_at |-> NoTime]

\* ensure_idempotent from the row `existing` read by the query to the return
EnsureResult(existing, locks, operation_id) ==
    IF EnsureDuplicate(existing) # NoRow
    THEN EnsureDuplicate(existing)
    ELSE EnsureInsertResult(locks, operation_id)

EnsureLocks(existing, locks, operation_id, operation_type, actor_id, t) ==
    IF EnsureDuplicate(existing) # NoRow \/ UniqueViolation(locks, operation_id)
    THEN locks
    ELSE Append(locks, NewLock(operation_id, operation_type, actor_id, t))

Proceeded(result) == result.kind = "proceed" /\ ~result.is_duplicate

CountProceed(result, operation_id) ==
    IF Proceeded(result)
    THEN [proceeds EXCEPT ![operation_id] = @ + 1]
    ELSE proceeds

\* ensure_idempotent(operation_id, operation_type, actor_id), run atomically
ensure_idempotent(operation_id, operation_type, actor_id) ==
    LET existing == QueryLock(operation_locks, operation_id)
        result == EnsureResult(existing, operation_locks, operation_id)
    IN  /\ operation_locks' = EnsureLocks(existing, operation_locks, operation_id,
                                          operation_type, actor_id, now)
        /\ ret' = [call |-> "ensure_idempotent", operation_id |-> operation_id,
                   existing |-> existing, result |-> result]
        /\ proceeds' = CountProceed(result, operation_id)
        /\ UNCHANGED <<system_states, state_calls, retry, users, approval_requests, audit_logs, now, sess, last_complete>>

\* mutant: the result is not stored
CompleteLocks_no_result(locks, operation_id, result, success, t) ==
    [i \in 1..Len(locks) |->
        IF locks[i] = QueryLock(locks, operation_id)
        THEN [locks[i] EXCEPT
                 !.status = IF success THEN "completed" ELSE "failed",
                 !.completed_at = t]
        ELSE locks[i]]

\* mutant: every lock is completed, whatever its operation_id
CompleteLocks_every(locks, operation_id, result, success, t) ==
    [i \in 1..Len(locks) |->
        [locks[i] EXCEPT
            !.status = IF success THEN "completed" ELSE "failed",
            !.result = json_dumps(result),
            !.completed_at = t]]

\* the table after complete_operation(operation_id, result, success)
CompleteLocks(locks, operation_id, result, success, t) ==
    [i \in 1..Len(locks) |->
        IF locks[i] = QueryLock(locks, operation_id)
        THEN [locks[i] EXCEPT
                 !.status = IF success THEN "completed" ELSE "failed",
                 !.result = json_dumps(result),
                 !.completed_at = t]
        ELSE locks[i]]

complete_operation(operation_id, result, success) ==
    /\ operation_locks' = CompleteLocks(operation_locks, operation_id, result, success, now)
    /\ ret' = [call |-> "complete_operation", operation_id |-> operation_id,
               existing |-> QueryLock(operation_locks, operation_id),
               result |-> PyNone]
    /\ last_complete' = IF Found(QueryLock(operation_locks, operation_id))
                        THEN [last_complete EXCEPT ![operation_id] =
                                 [call |-> "complete_operation", result |-> result,
                                  success |-> success]]
                        ELSE last_complete
    /\ UNCHANGED <<system_states, state_calls, retry, users, approval_requests, audit_logs, now, sess, proceeds>>

\* the clock advances
Tick ==
    /\ \E d \in TickSteps : now + d <= MaxTime /\ now' = now + d
    /\ UNCHANGED <<system_states, state_calls, retry, users, approval_requests, operation_locks, audit_logs, sess,
                   ret, proceeds, last_complete>>

----------------------------------------------------------------------------
(* Two request handlers running ensure_idempotent against the shared table: *)
(* a handler first runs the query, and inserts and commits in a later step  *)

\* lines 483-485: the query
EnsureQuery(s, operation_id, operation_type, actor_id) ==
    /\ sess[s].pc = "idle"
    /\ sess' = [sess EXCEPT ![s] =
                   [pc |-> "queried", operation_id |-> operation_id,
                    operation_type |-> operation_type, actor_id |-> actor_id,
                    existing |-> QueryLock(operation_locks, operation_id)]]
    /\ UNCHANGED <<system_states, state_calls, retry, users, approval_requests, operation_locks, audit_logs, now,
                   ret, proceeds, last_complete>>

\* lines 487-517: the branches on the row read, the insert, the commit, the return
EnsureFinish(s) ==
    /\ sess[s].pc = "queried"
    /\ LET l == sess[s]
           result == EnsureResult(l.existing, operation_locks, l.operation_id)
       IN  /\ operation_locks' = EnsureLocks(l.existing, operation_locks, l.operation_id,
                                             l.operation_type, l.actor_id, now)
           /\ sess' = [sess EXCEPT ![s] =
                          [pc |-> "returned", operation_id |-> l.operation_id,
                           existing |-> l.existing, result |-> result]]
           /\ proceeds' = CountProceed(result, l.operation_id)
    /\ UNCHANGED <<system_states, state_calls, retry, users, approval_requests, audit_logs, now, ret, last_complete>>

\* the request ends, its session is closed
SessionClose(s) ==
    /\ sess[s].pc = "returned"
    /\ sess' = [sess EXCEPT ![s] = Idle]
    /\ UNCHANGED <<system_states, state_calls, retry, users, approval_requests, operation_locks, audit_logs, now,
                   ret, proceeds, last_complete>>

----------------------------------------------------------------------------
(* STATE MANAGEMENT: system_states *)

StateValues == {PyNone, PyEmptyStr, PySent}
StateActors == {"root"}

\* db.query(SystemState).filter(SystemState.key == key).first()
QueryState(states, key) ==
    IF \E i \in 1..Len(states) : states[i].key = key
    THEN states[CHOOSE i \in 1..Len(states) :
                   /\ states[i].key = key
                   /\ \A j \in 1..(i-1) : states[j].key # key]
    ELSE NoRow

\* SystemState(...) as constructed by save_state, with the column defaults
NewState(id, key, value_json, changed_by, reason, t) ==
    [id |-> id,
     key |-> key,
     value |-> value_json,
     version |-> 1,
     previous_value |-> NULL,
     changed_by |-> changed_by,
     change_reason |-> reason,
     is_rollback |-> FALSE,
     rolled_back_from_version |-> NoVersion,
     updated_at |-> t]

\* mutant: the current value is not moved into previous_value
SavedState_keeps_previous(existing, value_json, changed_by, reason, t) ==
    [existing EXCEPT
        !.value = value_json,
        !.version = existing.version + 1,
        !.changed_by = changed_by,
        !.change_reason = reason,
        !.is_rollback = FALSE,
        !.updated_at = t]

\* the object `existing` after the assignments of save_state, lines 612-621
SavedState(existing, value_json, changed_by, reason, t) ==
    [existing EXCEPT
        !.previous_value = existing.value,
        !.value = value_json,
        !.version = existing.version + 1,
        !.changed_by = changed_by,
        !.change_reason = reason,
        !.is_rollback = FALSE,
        !.updated_at = t]

\* mutant: a record is always taken to have a previous value
HasPrevious_always(state) == TRUE

\* state.previous_value (its truth value)
HasPrevious(state) == Truthy(state.previous_value)

\* mutant: the rollback does not keep the value it replaces
RolledBackState_no_swap(state, rolled_back_by, reason, t) ==
    [state EXCEPT
        !.value = state.previous_value,
        !.version = state.version + 1,
        !.is_rollback = TRUE,
        !.rolled_back_from_version = state.version,
        !.changed_by = rolled_back_by,
        !.change_reason = reason,
        !.updated_at = t]

\* mutant: the rollback does not count as a version
RolledBackState_same_version(state, rolled_back_by, reason, t) ==
    [state EXCEPT
        !.value = state.previous_value,
        !.previous_value = state.value,
        !.is_rollback = TRUE,
        !.rolled_back_from_version = state.version,
        !.changed_by = rolled_back_by,
        !.change_reason = reason,
        !.updated_at = t]

\* the object `state` after the assignments of rollback_state, lines 672-681;
\* updated_at is set by the column's onupdate
RolledBackState(state, rolled_back_by, reason, t) ==
    [state EXCEPT
        !.value = state.previous_value,
        !.previous_value = state.value,
        !.version = state.version + 1,
        !.is_rollback = TRUE,
        !.rolled_back_from_version = state.version,
        !.changed_by = rolled_back_by,
        !.change_reason = reason,
        !.updated_at = t]

\* db.commit() of a session that loaded the row `loaded` and holds it as
\* `changed`: the UPDATE sets the columns whose value differs from the loaded
\* one, in the row of that id
FlushState(states, loaded, changed) ==
    [i \in 1..Len(states) |->
        IF states[i].id = loaded.id
        THEN [f \in DOMAIN states[i] |->
                 IF changed[f] # loaded[f] THEN changed[f] ELSE states[i][f]]
        ELSE states[i]]

\* json.dumps({"version": existing.version})
VersionChanges(version) == <<"version", ToString(version)>>

\* json.dumps({"rolled_back_from": current_version, "to_version": state.version})
RollbackChanges(current_version, version) ==
    <<"rolled_back_from", ToString(current_version), "to_version", ToString(version)>>

\* save_state from the row `existing` read by the query: the table it commits
SaveStates(existing, states, key, value, changed_by, reason, t) ==
    IF Found(existing)
    THEN FlushState(states, existing,
                    SavedState(existing, json_dumps(value), changed_by, reason, t))
    ELSE Append(states, NewState(NewId(Len(states)), key, json_dumps(value),
                                 changed_by, reason, t))

\* existing.version when save_state returns
SaveVersion(existing) == IF Found(existing) THEN existing.version + 1 ELSE 1

SaveAudit(existing, key, changed_by, reason) ==
    AuditEntry(changed_by, NULL, "save_state", "system_state", Text(key),
               VersionChanges(SaveVersion(existing)), reason, "success")

SaveResult(existing, key) ==
    [error |-> NoText, key |-> key, version |-> SaveVersion(existing),
     previous_version |-> IF Found(existing) THEN existing.version ELSE 0,
     status |-> "saved"]

\* the error rollback_state returns for the row it read, or NoText
RollbackError(state) ==
    IF ~Found(state) THEN Text("State not found")
    ELSE IF ~HasPrevious(state) THEN Text("No previous version to rollback to")
    ELSE NoText

RollbackStates(state, states, rolled_back_by, reason, t) ==
    IF RollbackError(state) # NoText
    THEN states
    ELSE FlushState(states, state, RolledBackState(state, rolled_back_by, reason, t))

RollbackAudit(state, key, rolled_back_by, reason) ==
    AuditEntry(rolled_back_by, NULL, "rollback_state", "system_state", Text(key),
               RollbackChanges(state.version, state.version + 1), reason, "success")

RollbackResult(state, key) ==
    IF RollbackError(state) # NoText
    THEN [error |-> RollbackError(state)]
    ELSE [error |-> NoText, key |-> key,
          rolled_back_from_version |-> state.version,
          new_version |-> state.version + 1, status |-> "rolled_back"]

\* the history of the calls that wrote
Called(key, call, value) ==
    [state_calls EXCEPT ![key] = Append(@, [call |-> call, value |-> value])]

\* save_state(key, value, changed_by, reason), run without interleaving
save_state(key, value, changed_by, reason) ==
    LET existing == QueryState(system_states, key) IN
    /\ Len(audit_logs) < MaxWrites
    /\ system_states' = SaveStates(existing, system_states, key, value,
                                   changed_by, reason, now)
    /\ audit_logs' = Commit(audit_logs,
                            <<SaveAudit(existing, key, changed_by, reason)>>, now)
    /\ state_calls' = Called(key, "save_state", value)
    /\ ret' = [call |-> "save_state", changed_by |-> changed_by, key |-> key, value |-> value,
               state |-> existing, result |-> SaveResult(existing, key)]
    /\ UNCHANGED <<users, approval_requests, operation_locks, now, sess,
                   proceeds, last_complete, retry>>

\* rollback_state(key, rolled_back_by, reason), run without interleaving
rollback_state(key, rolled_back_by, reason) ==
    LET state == QueryState(system_states, key) IN
    /\ RollbackError(state) = NoText => Len(audit_logs) < MaxWrites
    /\ system_states' = RollbackStates(state, system_states, rolled_back_by,
                                       reason, now)
    /\ audit_logs' = IF RollbackError(state) # NoText
                     THEN audit_logs
                     ELSE Commit(audit_logs,
                                 <<RollbackAudit(state, key, rolled_back_by, reason)>>,
                                 now)
    /\ state_calls' = IF RollbackError(state) # NoText
                      THEN state_calls
                      ELSE Called(key, "rollback_state", PyNone)
    /\ ret' = [call |-> "rollback_state", changed_by |-> rolled_back_by, key |-> key, value |-> PyNone,
               state |-> state, result |-> RollbackResult(state, key)]
    /\ UNCHANGED <<users, approval_requests, operation_locks, now, sess,
                   proceeds, last_complete, retry>>

\* the dict get_state returns
GetResult(state, key) ==
    IF ~Found(state)
    THEN [error |-> Text("State not found")]
    ELSE [error |-> NoText, key |-> key, value |-> json_loads(state.value),
          version |-> state.version, updated_at |-> state.updated_at]

get_state(key) ==
    /\ ret' = [call |-> "get_state", key |-> key, value |-> PyNone,
               state |-> QueryState(system_states, key),
               result |-> GetResult(QueryState(system_states, key), key)]
    /\ UNCHANGED <<users, approval_requests, operation_locks, audit_logs, now,
                   sess, proceeds, last_complete, system_states, state_calls,
                   retry>>

----------------------------------------------------------------------------
(* Request handlers running save_state and rollback_state against the       *)
(* shared table: a handler first runs the query, and assigns, adds the      *)
(* audit entry and commits in a later step                                  *)

StateCalls == {"save_state", "rollback_state"}
RaceKeys == {"k1"}
RaceValues == {PyEmptyStr, PySent}

\* lines 605-607 and 664: the query
StateQuery(s, call, key, value, actor, reason) ==
    /\ sess[s].pc = "idle"
    /\ sess' = [sess EXCEPT ![s] =
                   [pc |-> "queried", call |-> call, key |-> key, value |-> value,
                    actor |-> actor, reason |-> reason,
                    state |-> QueryState(system_states, key)]]
    /\ UNCHANGED <<users, approval_requests, operation_locks, audit_logs, now,
                   ret, proceeds, last_complete, system_states, state_calls,
                   retry>>

\* a handler's locals when it has returned: the row it read, what it
\* returned, the row as its commit left it and the number of that commit
StateReturned(l, result, committed, commit_no) ==
    [pc |-> "returned", call |-> l.call, key |-> l.key, value |-> l.value,
     state |-> l.state, result |-> result, committed |-> committed,
     commit_no |-> commit_no]

\* the row of id `id`
StateById(states, id) ==
    states[CHOOSE i \in 1..Len(states) : states[i].id = id]

\* lines 609-651: save_state from the row read to the return
SaveFinish(s) ==
    /\ sess[s].pc = "queried" /\ sess[s].call = "save_state"
    /\ Len(audit_logs) < MaxRaceWrites
    /\ LET l == sess[s]
           states == SaveStates(l.state, system_states, l.key, l.value,
                                l.actor, l.reason, now)
       IN  /\ system_states' = states
           /\ audit_logs' = Commit(audit_logs,
                                   <<SaveAudit(l.state, l.key, l.actor, l.reason)>>,
                                   now)
           /\ state_calls' = Called(l.key, "save_state", l.value)
           /\ sess' = [sess EXCEPT ![s] =
                          StateReturned(l, SaveResult(l.state, l.key),
                                        IF Found(l.state)
                                        THEN StateById(states, l.state.id)
                                        ELSE states[Len(states)],
                                        Len(audit_logs) + 1)]
    /\ UNCHANGED <<users, approval_requests, operation_locks, now, ret,
                   proceeds, last_complete, retry>>

\* lines 666-703: rollback_state from the row read to the return
RollbackFinish(s) ==
    /\ sess[s].pc = "queried" /\ sess[s].call = "rollback_state"
    /\ RollbackError(sess[s].state) = NoText => Len(audit_logs) < MaxRaceWrites
    /\ LET l == sess[s]
           failed == RollbackError(l.state) # NoText
           states == RollbackStates(l.state, system_states, l.actor, l.reason, now)
       IN  /\ system_states' = states
           /\ audit_logs' = IF failed THEN audit_logs
                            ELSE Commit(audit_logs,
                                        <<RollbackAudit(l.state, l.key, l.actor,
                                                        l.reason)>>, now)
           /\ state_calls' = IF failed THEN state_calls
                             ELSE Called(l.key, "rollback_state", PyNone)
           /\ sess' = [sess EXCEPT ![s] =
                          StateReturned(l, RollbackResult(l.state, l.key),
                                        IF failed THEN NoRow
                                        ELSE StateById(states, l.state.id),
                                        IF failed THEN 0 ELSE Len(audit_logs) + 1)]
    /\ UNCHANGED <<users, approval_requests, operation_locks, now, ret,
                   proceeds, last_complete, retry>>

----------------------------------------------------------------------------
InitIdem ==
    /\ users = <<>>
    /\ approval_requests = <<>>
    /\ operation_locks = <<>>
    /\ audit_logs = <<>>
    /\ now = 0
    /\ sess = [s \in Sessions |-> Idle]
    /\ ret = NoCall
    /\ proceeds = [o \in OperationIds |-> 0]
    /\ last_complete = [o \in OperationIds |-> NoCall]
    /\ system_states = <<>>
    /\ state_calls = [k \in StateKeys |-> <<>>]
    /\ retry = Idle

NextIdem ==
    \/ \E o \in OperationIds, t \in OperationTypes, a \in LockActors :
           ensure_idempotent(o, t, a)
    \/ \E o \in OperationIds, r \in ResultValues, ok \in BOOLEAN :
           complete_operation(o, r, ok)
    \/ Tick

SpecIdem == InitIdem /\ [][NextIdem]_vars

NextIdemRace ==
    \/ \E s \in Sessions, o \in OperationIds, t \in OperationTypes, a \in LockActors :
           EnsureQuery(s, o, t, a)
    \/ \E s \in Sessions : EnsureFinish(s)
    \/ \E s \in Sessions : SessionClose(s)
    \/ \E o \in OperationIds, ok \in BOOLEAN :
           complete_operation(o, PySent, ok)

SpecIdemRace == InitIdem /\ [][NextIdemRace]_vars

\* the state store, one handler at a time
NextState ==
    \/ \E k \in StateKeys, v \in StateValues, a \in StateActors, why \in Reasons :
           save_state(k, v, a, why)
    \/ \E k \in StateKeys, a \in StateActors, why \in Reasons :
           rollback_state(k, a, why)
    \/ \E k \in StateKeys : get_state(k)

SpecState == InitIdem /\ [][NextState]_vars

\* the state store, handlers interleaved
NextStateRace ==
    \/ \E s \in Sessions, c \in StateCalls, k \in RaceKeys, v \in RaceValues, a \in StateActors, why \in Reasons :
           StateQuery(s, c, k, v, a, why)
    \/ \E s \in Sessions : SaveFinish(s)
    \/ \E s \in Sessions : RollbackFinish(s)
    \/ \E s \in Sessions : SessionClose(s)

SpecStateRace == InitIdem /\ [][NextStateRace]_vars

----------------------------------------------------------------------------
(* RETRY: execute_with_retry.  An error message is the sequence of its      *)
(* characters.                                                              *)

max_retries == 3
retry_backoff_base == 2

\* str(e) of the errors an operation raises
ConnectionReset == <<"R", "e", "s", "e", "t">>
LockTimeout == <<"T", "i", "m", "e", "d", " ", "o", "u", "t">>
UserNotFound == <<"U", "s", "e", "r", " ", "N", "o", "t", " ", "F", "o", "u", "n", "d">>
Forbidden == <<"F", "O", "R", "B", "I", "D", "D", "E", "N">>

ConnectionInvalidated == <<"c", "o", "n", "n", "e", "c", "t", "i", "o", "n", " ", "i", "n", "v", "a", "l", "i", "d", "a", "t", "e", "d">>

ErrorMessages == {ConnectionReset, LockTimeout, UserNotFound, Forbidden, ConnectionInvalidated}

fatal_messages ==
    {<<"p", "e", "r", "m", "i", "s", "s", "i", "o", "n", " ", "d", "e", "n", "i", "e", "d">>,
     <<"u", "n", "a", "u", "t", "h", "o", "r", "i", "z", "e", "d">>,
     <<"n", "o", "t", " ", "f", "o", "u", "n", "d">>,
     <<"i", "n", "v", "a", "l", "i", "d">>,
     <<"f", "o", "r", "b", "i", "d", "d", "e", "n">>}

\* str.lower() of one character
LowerChar(c) ==
    CASE c = "R" -> "r" [] c = "T" -> "t" [] c = "U" -> "u" [] c = "N" -> "n"
      [] c = "F" -> "f" [] c = "O" -> "o" [] c = "B" -> "b" [] c = "I" -> "i"
      [] c = "D" -> "d" [] c = "E" -> "e"
      [] OTHER -> c

\* str(error).lower()
Lower(str) == [i \in 1..Len(str) |-> LowerChar(str[i])]

\* msg in error_str
IsSubstring(msg, str) ==
    \E i \in 1..(Len(str) - Len(msg) + 1) :
        SubSeq(str, i, i + Len(msg) - 1) = msg

\* mutant: no error is fatal
is_fatal_error_never(error) == FALSE

\* _is_fatal_error(error)
is_fatal_error(error) ==
    \E msg \in fatal_messages : IsSubstring(msg, Lower(error))

\* the optional argument max_retries: None, or an int
NoMaxRetries == [given |-> FALSE, n |-> 0]
GivenMaxRetries(n) == [given |-> TRUE, n |-> n]

\* max_retries or self.max_retries
Retries(arg) == IF arg.given /\ arg.n # 0 THEN arg.n ELSE max_retries

\* mutant: the attempts are reported from zero
Attempts_zero_based(attempt) == attempt

\* attempt + 1
Attempts(attempt) == attempt + 1

\* mutant: the wait does not depend on the attempt being the last
ShouldSleep_always(attempt, retries) == TRUE

\* attempt < retries - 1
ShouldSleep(attempt, retries) == attempt < retries - 1

\* self.retry_backoff_base ** attempt
WaitTime(attempt) == retry_backoff_base ^ attempt

\* what an invocation of the operation does: it returns, or raises
Returns(value) == [raised |-> FALSE, value |-> value, error |-> <<>>]
Raises(error) == [raised |-> TRUE, value |-> PyNone, error |-> error]
Outcomes == {Returns(v) : v \in ResultValues} \cup {Raises(e) : e \in ErrorMessages}

\* the dict execute_with_retry returns; a key the dict lacks is FALSE or empty
RetryResult(success, result, error, fatal, attempts, message) ==
    [success |-> success, result |-> result, error |-> error, fatal |-> fatal,
     attempts |-> attempts, message |-> message]

\* lines 548-549: the call, up to the loop
RetryCall(arg) ==
    /\ retry.pc = "idle"
    /\ retry' = [pc |-> "loop", max_retries |-> arg, retries |-> Retries(arg),
                 attempt |-> 0, last_error |-> <<>>, outcomes |-> <<>>,
                 sleeps |-> <<>>, result |-> NoRow]
    /\ UNCHANGED <<users, approval_requests, operation_locks, audit_logs, now,
                   sess, ret, proceeds, last_complete, system_states,
                   state_calls>>

\* lines 551-570: one pass of the loop; the operation does `outcome`
RetryAttempt(outcome) ==
    /\ retry.pc = "loop"
    /\ retry.attempt < retry.retries
    /\ LET outcomes == Append(retry.outcomes, outcome) IN
       IF ~outcome.raised
       THEN retry' = [retry EXCEPT
                         !.pc = "returned", !.outcomes = outcomes,
                         !.result = RetryResult(TRUE, outcome.value, <<>>, FALSE,
                                                Attempts(retry.attempt), NoText)]
       ELSE IF is_fatal_error(outcome.error)
       THEN retry' = [retry EXCEPT
                         !.pc = "returned", !.outcomes = outcomes,
                         !.last_error = outcome.error,
                         !.result = RetryResult(FALSE, PyNone, outcome.error, TRUE,
                                                Attempts(retry.attempt), NoText)]
       ELSE retry' = [retry EXCEPT
                         !.outcomes = outcomes,
                         !.last_error = outcome.error,
                         !.attempt = retry.attempt + 1,
                         !.sleeps = IF ShouldSleep(retry.attempt, retry.retries)
                                    THEN Append(@, [after |-> Len(outcomes),
                                                    wait |-> WaitTime(retry.attempt)])
                                    ELSE @]
    /\ UNCHANGED <<users, approval_requests, operation_locks, audit_logs, now,
                   sess, ret, proceeds, last_complete, system_states,
                   state_calls>>

\* lines 572-577: the loop has ended
RetryExhausted ==
    /\ retry.pc = "loop"
    /\ ~(retry.attempt < retry.retries)
    /\ retry' = [retry EXCEPT
                    !.pc = "returned",
                    !.result = RetryResult(FALSE, PyNone, retry.last_error, FALSE,
                                           retry.retries,
                                           Text("Max retries exceeded"))]
    /\ UNCHANGED <<users, approval_requests, operation_locks, audit_logs, now,
                   sess, ret, proceeds, last_complete, system_states,
                   state_calls>>

\* the caller has the result
RetryDone ==
    /\ retry.pc = "returned"
    /\ retry' = Idle
    /\ UNCHANGED <<users, approval_requests, operation_locks, audit_logs, now,
                   sess, ret, proceeds, last_complete, system_states,
                   state_calls>>

MaxRetriesArgs == {NoMaxRetries} \cup {GivenMaxRetries(n) : n \in 0..MaxRetriesArg}

NextRetry ==
    \/ \E arg \in MaxRetriesArgs : RetryCall(arg)
    \/ \E outcome \in Outcomes : RetryAttempt(outcome)
    \/ RetryExhausted
    \/ RetryDone

SpecRetry == InitIdem /\ [][NextRetry]_vars

InitGov ==
    /\ users = InitUsers
    /\ approval_requests = <<>>
    /\ operation_locks = <<>>
    /\ audit_logs = <<>>
    /\ now = 0
    /\ sess = [s \in Sessions |-> Idle]
    /\ ret = NoCall
    /\ proceeds = [o \in OperationIds |-> 0]
    /\ last_complete = [o \in OperationIds |-> NoCall]
    /\ system_states = <<>>
    /\ state_calls = [k \in StateKeys |-> <<>>]
    /\ retry = Idle

\* the inactive account takes every role, with and without an extra grant
InitPerm ==
    /\ \E r \in Roles, g \in {NoText, <<Perm("task", "create")>>} :
          users = [InitUsers EXCEPT !["ina"].role = r, !["ina"].permissions = g]
    /\ approval_requests = <<>>
    /\ operation_locks = <<>>
    /\ audit_logs = <<>>
    /\ now = 0
    /\ sess = [s \in Sessions |-> Idle]
    /\ ret = NoCall
    /\ proceeds = [o \in OperationIds |-> 0]
    /\ last_complete = [o \in OperationIds |-> NoCall]
    /\ system_states = <<>>
    /\ state_calls = [k \in StateKeys |-> <<>>]
    /\ retry = Idle

NextPerm ==
    \E u \in UserIds \cup UnknownIds, p \in Permissions :
        check_permission(u, p)

SpecPerm == InitPerm /\ [][NextPerm]_vars

\* users.permissions of an active account: JSON arrays of permission strings,
\* wildcards among them
GrantLists ==
    {NoText, <<Star>>, <<Perm("create", "*"), Perm("approve", "delete_data")>>,
     <<Perm("create", "user")>>, <<Perm("read", "*"), Star>>}

\* the account gail is active, with every role and each list of extra grants
InitGrants ==
    /\ \E r \in Roles, g \in GrantLists :
          users = [InitUsers EXCEPT !["gail"].role = r, !["gail"].permissions = g]
    /\ approval_requests = <<>>
    /\ operation_locks = <<>>
    /\ audit_logs = <<>>
    /\ now = 0
    /\ sess = [s \in Sessions |-> Idle]
    /\ ret = NoCall
    /\ proceeds = [o \in OperationIds |-> 0]
    /\ last_complete = [o \in OperationIds |-> NoCall]
    /\ system_states = <<>>
    /\ state_calls = [k \in StateKeys |-> <<>>]
    /\ retry = Idle

NextGrants ==
    \E u \in {"gail", "vic", "ina"}, p \in Permissions :
        check_permission(u, p)

SpecGrants == InitGrants /\ [][NextGrants]_vars


Next ==
    \/ \E x \in RoleChanges, c \in RoleChangers, why \in Reasons :
           update_user_role(x[1], x[2], c, why)
    \/ \E a \in ActionTypes, q \in Requesters, h \in ExpiresInHours :
           create_approval_request(a, "record", Text("r1"), Text("summary"),
                                   q, FALSE, h)
    \/ \E i \in ApprovalIds, u \in Approvers, d \in BOOLEAN, why \in Reasons :
           process_approval(i, u, d, why)
    \/ Tick

Spec == InitGov /\ [][Next]_vars

----------------------------------------------------------------------------
(* AUDIT LOGGING: get_audit_trail.  An entry's id is its index in audit_logs *)

\* the filters of a call: resource_type, resource_id, actor_id
TrailFilters == {<<NULL, NoText, NULL>>, <<"", NoText, NULL>>, <<"user", NoText, NULL>>, <<NULL, Text("cara"), NULL>>, <<NULL, NoText, "ghost">>, <<"user", Text("cara"), "ghost">>}
Limits == 0..MaxLimit

\* mutant: the actor filter is not applied
MatchesFilters_no_actor(log, resource_type, resource_id, actor_id) ==
    /\ Truthy(resource_type) => log.resource_type = resource_type
    /\ resource_id # NoText => log.resource_id = resource_id

\* the filters of get_audit_trail, lines 421-426: a filter that is None or
\* empty is not applied
MatchesFilters(log, resource_type, resource_id, actor_id) ==
    /\ Truthy(resource_type) => log.resource_type = resource_type
    /\ resource_id # NoText => log.resource_id = resource_id
    /\ Truthy(actor_id) => log.actor_id = actor_id

\* the ids of the rows the filtered query selects
TrailMatches(audit, resource_type, resource_id, actor_id) ==
    {i \in 1..Len(audit) :
        MatchesFilters(audit[i], resource_type, resource_id, actor_id)}

\* the rows of `ids` that no other row of `ids` is newer than
Newest(time, ids) == {i \in ids : \A j \in ids : time[j] <= time[i]}

RECURSIVE DescOrders(_, _)
\* order_by(desc(column)): the orders the database may return the rows `ids`
\* in, time[i] being the column of row i; rows of equal time come in any order
DescOrders(time, ids) ==
    IF ids = {} THEN {<<>>}
    ELSE UNION {{<<i>> \o rest : rest \in DescOrders(time, ids \ {i})} :
                i \in Newest(time, ids)}

\* .limit(limit)
Limited(order, limit) ==
    [i \in 1..(IF limit < Len(order) THEN limit ELSE Len(order)) |-> order[i]]

\* get_audit_trail(resource_type, resource_id, actor_id, limit): the ids of
\* the dicts returned, in their order
get_audit_trail(resource_type, resource_id, actor_id, limit) ==
    /\ \E order \in DescOrders([i \in DOMAIN audit_logs |-> audit_logs[i].timestamp],
                               TrailMatches(audit_logs, resource_type,
                                            resource_id, actor_id)) :
          ret' = [call |-> "get_audit_trail", resource_type |-> resource_type,
                  resource_id |-> resource_id, actor_id |-> actor_id,
                  limit |-> limit, logs |-> audit_logs,
                  result |-> Limited(order, limit)]
    /\ UNCHANGED <<users, approval_requests, operation_locks, audit_logs, now,
                   sess, proceeds, last_complete, system_states, state_calls,
                   retry>>

AuditRoleChanges == {<<"cara", "viewer">>, <<"ghost", "viewer">>}
AuditRequesters == {"ghost"}

\* the governed operations
NextAudit ==
    \/ \E x \in AuditRoleChanges, c \in AuditRequesters, why \in Reasons :
           update_user_role(x[1], x[2], c, why)
    \/ create_approval_request("delete_data", "record", Text("r1"),
                               Text("summary"), "cara", FALSE, DefaultExpiresInHours)
    \/ \E i \in ApprovalIds, u \in {"root", "mia"}, d \in BOOLEAN, why \in Reasons :
           process_approval(i, u, d, why)
    \/ \E a \in AuditRequesters, why \in Reasons :
           save_state("k1", PySent, a, why)
    \/ \E a \in AuditRequesters, why \in Reasons :
           rollback_state("k1", a, why)
    \/ Tick

SpecAudit == InitGov /\ [][NextAudit]_vars

\* log_action(actor_id, action, resource_type, resource_id, reason): add the
\* entry and commit
log_action(actor_id, action, resource_type, resource_id, reason) ==
    LET actor == QueryUser(users, actor_id) IN
    /\ Len(audit_logs) < MaxLogged
    /\ audit_logs' = Commit(audit_logs,
                            <<AuditEntry(actor_id,
                                         IF Found(actor) THEN actor.role ELSE NULL,
                                         action, resource_type, resource_id,
                                         NoText, reason, "success")>>,
                            now)
    /\ ret' = [call |-> "log_action", result |-> "logged"]
    /\ UNCHANGED <<users, approval_requests, operation_locks, now, sess,
                   proceeds, last_complete, system_states, state_calls, retry>>

\* the entries other agents log: actor_id, resource_type, resource_id
Logged == {<<"ghost", "user", Text("cara")>>, <<"root", "user", Text("cara")>>, <<"ghost", "task", Text("t1")>>}

\* entries of two actors, two resource types and two resources, and the
\* audit trail
NextTrail ==
    \/ \E l \in Logged, why \in Reasons :
           log_action(l[1], "assign", l[2], l[3], why)
    \/ \E f \in TrailFilters, n \in Limits :
           get_audit_trail(f[1], f[2], f[3], n)
    \/ Tick

SpecTrail == InitGov /\ [][NextTrail]_vars

----------------------------------------------------------------------------
(* APPROVALS: get_pending_approvals *)

\* mutant: the expiry is not looked at
IsListed_unexpired(approval, t) == approval.status = "pending"

\* the filter of get_pending_approvals, lines 352-355
IsListed(approval, t) == approval.status = "pending" /\ approval.expires_at > t

\* get_pending_approvals(): the ids of the dicts returned, in their order
get_pending_approvals ==
    /\ \E order \in DescOrders([i \in DOMAIN approval_requests |-> approval_requests[i].requested_at],
                               {i \in DOMAIN approval_requests : IsListed(approval_requests[i], now)}) :
          ret' = [call |-> "get_pending_approvals", at |-> now,
                  approvals |-> approval_requests,
                  result |-> [k \in DOMAIN order |-> approval_requests[order[k]].id]]
    /\ UNCHANGED <<users, approval_requests, operation_locks, audit_logs, now,
                   sess, proceeds, last_complete, system_states, state_calls,
                   retry>>

PendingIds == {ToString(i) : i \in 1..MaxPending}

\* requests are made, decided and listed while the clock advances
NextPending ==
    \/ \E h \in ExpiresInHours :
           CreateApprovalRequest(MaxPending, MaxWrites, "delete_data", "record",
                                 Text("r1"), Text("summary"), "cara", FALSE, h)
    \/ \E i \in PendingIds, d \in BOOLEAN, why \in Reasons :
           ProcessApproval(MaxWrites, i, "root", d, why)
    \/ get_pending_approvals
    \/ Tick

SpecPending == InitGov /\ [][NextPending]_vars

----------------------------------------------------------------------------
(* APPROVALS: process_approval by concurrent request handlers, each with a
   session of its own: a handler first runs the query, and decides, writes and
   commits in a later step *)

\* line 303: the query
ProcessQuery(s, approval_id, approver_id, approved, reason) ==
    /\ sess[s].pc = "idle"
    /\ sess' = [sess EXCEPT ![s] =
                   [pc |-> "queried", approval_id |-> approval_id,
                    approver_id |-> approver_id, approved |-> approved,
                    reason |-> reason,
                    approval |-> QueryApproval(approval_requests, approval_id)]]
    /\ UNCHANGED <<users, approval_requests, operation_locks, audit_logs, now,
                   ret, proceeds, last_complete, system_states, state_calls,
                   retry>>

\* lines 305-319: the error process_approval returns for the row it read
ProcessError(approval, approver_id, t) ==
    IF ~Found(approval) THEN Text("Approval request not found")
    ELSE IF IsResolved(approval) THEN <<"Approval already ", approval.status>>
    ELSE IF IsExpired(approval, t) THEN Text("Approval request has expired")
    ELSE IF ~CheckPermission(users, approver_id, ApprovePermission(approval)).allowed
    THEN Text("Not authorized to approve this action")
    ELSE NoText

\* lines 305-348: process_approval from the row read to the return; the
\* commit updates the columns the handler changed in the row of that id
ProcessFinish(s) ==
    /\ sess[s].pc = "queried"
    /\ LET l == sess[s]
           error == ProcessError(l.approval, l.approver_id, now)
           changed == IF error = NoText
                      THEN Resolve(l.approval, l.approver_id, l.approved, l.reason, now)
                      ELSE IF error = Text("Approval request has expired")
                      THEN [l.approval EXCEPT !.status = "expired"]
                      ELSE l.approval
       IN  /\ error = NoText => Len(audit_logs) < MaxRaceWrites
           /\ approval_requests' = IF Found(l.approval)
                                   THEN FlushState(approval_requests, l.approval, changed)
                                   ELSE approval_requests
           /\ audit_logs' =
                 IF error = NoText
                 THEN Commit(audit_logs,
                             <<AuditEntry(l.approver_id, NULL,
                                          IF l.approved THEN "approve" ELSE "reject",
                                          "approval_request", Text(l.approval_id),
                                          NoText, l.reason, "success")>>,
                             now)
                 ELSE audit_logs
           /\ sess' = [sess EXCEPT ![s] =
                          [pc |-> "returned", approval_id |-> l.approval_id,
                           approver_id |-> l.approver_id, approved |-> l.approved,
                           approval |-> l.approval,
                           result |-> IF error = NoText
                                      THEN [error |-> NoText,
                                            status |-> changed.status,
                                            resolved_by |-> RequesterName(users, l.approver_id)]
                                      ELSE [error |-> error, status |-> NULL,
                                            resolved_by |-> NULL]]]
    /\ UNCHANGED <<users, operation_locks, now, ret, proceeds, last_complete,
                   system_states, state_calls, retry>>

\* a request is made and concurrent handlers decide on it
NextApprovalRace ==
    \/ create_approval_request("delete_data", "record", Text("r1"),
                               Text("summary"), "cara", FALSE, DefaultExpiresInHours)
    \/ \E s \in Sessions, u \in {"root", "gail"}, d \in BOOLEAN, why \in Reasons :
           ProcessQuery(s, "1", u, d, why)
    \/ \E s \in Sessions : ProcessFinish(s)
    \/ \E s \in Sessions : SessionClose(s)
    \/ Tick

SpecApprovalRace == InitGov /\ [][NextApprovalRace]_vars

----------------------------------------------------------------------------
(* USER MANAGEMENT: POST /users and create_user *)

\* db.query(User).filter(User.email == email).first() finds a row
EmailTaken(usrs, email) == \E id \in DOMAIN usrs : usrs[id].email = email

\* POST /users with body {email, name, role} and header x-user-id: the
\* permission check of the endpoint, then create_user of the agent, whose
\* commit also stores the entry the check has added to the session
create_user(email, name, role, x_user_id) ==
    LET perm == CheckPermission(users, x_user_id, Perm("create", "user"))
        id == NewId(Cardinality(DOMAIN users))
        call == [call |-> "create_user", x_user_id |-> x_user_id,
                 email |-> email, role |-> role]
    IN
    IF ~perm.allowed /\ x_user_id # "system"
    THEN /\ ret' = call @@ [result |-> [status_code |-> 403, error |-> Text("Permission denied"), user_id |-> NULL]]
         /\ UNCHANGED <<users, approval_requests, operation_locks, audit_logs,
                        now, sess, proceeds, last_complete, system_states,
                        state_calls, retry>>
    ELSE IF EmailTaken(users, email)
    THEN /\ ret' = call @@ [result |-> [status_code |-> 400, error |-> Text("User with this email already exists"), user_id |-> NULL]]
         /\ UNCHANGED <<users, approval_requests, operation_locks, audit_logs,
                        now, sess, proceeds, last_complete, system_states,
                        state_calls, retry>>
    ELSE /\ Cardinality(DOMAIN users) < Cardinality(UserIds) + MaxCreated
         /\ users' = users @@ (id :> [UserRow(name, role, NoText, TRUE) EXCEPT !.email = email])
         /\ audit_logs' = Commit(audit_logs,
                                 perm.audit \o
                                 <<AuditEntry(x_user_id, NULL, "create_user", "user",
                                              Text(id), NoText, NoText, "success")>>,
                                 now)
         /\ ret' = call @@ [result |-> [status_code |-> 200, error |-> NoText, user_id |-> id]]
         /\ UNCHANGED <<approval_requests, operation_locks, now, sess, proceeds,
                        last_complete, system_states, state_calls, retry>>

\* the emails of the bodies posted: two free ones and Cara's
Emails == {<<"Neo", "@corp.example">>, <<"Nia", "@corp.example">>, <<"Cara", "@corp.example">>}

\* users are created and asked about while the clock advances
NextUsers ==
    \/ \E e \in Emails, r \in {"viewer", "admin"}, x \in {"root", "vic", "ghost", "system"} :
           create_user(e, "Neo", r, x)
    \/ \E u \in {"7", "8", "vic"}, p \in {Perm("create", "user"), Perm("read", "project")} :
           check_permission(u, p)
    \/ Tick

SpecUsers == InitGov /\ [][NextUsers]_vars

----------------------------------------------------------------------------
(* SYSTEM HEALTH: health_check *)

\* the dict `checks` of health_check, lines 730-755; probe_ok tells whether
\* db.execute("SELECT 1") returned
HealthChecks(probe_ok, approvals, locks, t) ==
    LET expired == Cardinality({i \in DOMAIN approvals :
                                   /\ approvals[i].status = "pending"
                                   /\ approvals[i].expires_at < t})
        stale_locks == Cardinality({i \in DOMAIN locks :
                                       /\ locks[i].status = "in_progress"
                                       /\ locks[i].expires_at < t})
    IN  [database |-> [count |-> 0,
                       status |-> IF probe_ok THEN "healthy" ELSE "unhealthy"],
         approvals |-> [count |-> expired,
                        status |-> IF expired > 0 THEN "warning" ELSE "healthy"],
         operations |-> [count |-> stale_locks,
                         status |-> IF stale_locks > 0 THEN "warning" ELSE "healthy"]]

\* the overall status, lines 757-761
Overall(checks) ==
    IF \E c \in DOMAIN checks : checks[c].status = "unhealthy" THEN "unhealthy"
    ELSE IF \E c \in DOMAIN checks : checks[c].status = "warning" THEN "degraded"
    ELSE "healthy"

\* health_check(): the probe is inside try/except, the two count queries are
\* not; counts_ok tells whether the datastore answers them
health_check(probe_ok, counts_ok) ==
    LET checks == HealthChecks(probe_ok, approval_requests, operation_locks, now) IN
    /\ ret' = [call |-> "health_check", probe_ok |-> probe_ok, at |-> now,
               result |-> IF counts_ok
                          THEN [kind |-> "returned", status |-> Overall(checks),
                                checks |-> checks]
                          ELSE [kind |-> "raised", error |-> "OperationalError"]]
    /\ UNCHANGED <<users, approval_requests, operation_locks, audit_logs, now,
                   sess, proceeds, last_complete, system_states, state_calls,
                   retry>>

\* requests and locks age while health_check is called
NextHealth ==
    \/ create_approval_request("delete_data", "record", Text("r1"),
                               Text("summary"), "cara", FALSE, DefaultExpiresInHours)
    \/ process_approval("1", "root", TRUE, Text("ok"))
    \/ ensure_idempotent("op1", "send_email", "root")
    \/ complete_operation("op1", PySent, TRUE)
    \/ \E p \in BOOLEAN, c \in BOOLEAN : health_check(p, c)
    \/ Tick

SpecHealth == InitGov /\ [][NextHealth]_vars

----------------------------------------------------------------------------
(* C1: two ensure_idempotent calls for the same operation_id that both read  *)
(* the table before either inserts never both return is_duplicate = false:   *)
(* at most one proceed signal is ever returned per operation_id, and two     *)
(* handlers that have returned for the same operation_id have not both       *)
(* proceeded.                                                                *)
C1_RaceNeverBothProceed ==
    /\ \A o \in OperationIds : proceeds[o] <= 1
    /\ \A s \in Sessions, t \in Sessions :
          (s # t /\ sess[s].pc = "returned" /\ sess[t].pc = "returned"
             /\ sess[s].operation_id = sess[t].operation_id)
          => ~(Proceeded(sess[s].result) /\ Proceeded(sess[t].result))

\* both handlers read "absent" for the same operation_id and both have returned
C1_Witness ==
    \E s \in Sessions, t \in Sessions :
        /\ s # t
        /\ sess[s].pc = "returned" /\ sess[t].pc = "returned"
        /\ sess[s].operation_id = sess[t].operation_id
        /\ sess[s].existing = NoRow /\ sess[t].existing = NoRow
        /\ Proceeded(sess[s].result)
        /\ sess[t].result = [kind |-> "raised", error |-> "IntegrityError"]

(* C2: an ensure_idempotent call on an operation_id that has no lock returns *)
(* proceed and leaves an in_progress lock; a following call with no complete *)
(* in between reads that in_progress lock, returns duplicate with status     *)
(* in_progress and leaves the table as it is; proceed is never returned      *)
(* twice for one operation_id.                                               *)
C2_FirstProceeds ==
    (ret.call = "ensure_idempotent" /\ ret.existing = NoRow)
    => /\ Proceeded(ret.result)
       /\ proceeds[ret.operation_id] = 1
       /\ Found(QueryLock(operation_locks, ret.operation_id))
       /\ QueryLock(operation_locks, ret.operation_id).status = "in_progress"

C2_SecondDuplicate ==
    (ret.call = "ensure_idempotent" /\ Found(ret.existing)
        /\ ret.existing.status = "in_progress")
    => /\ ret.result.kind = "in_progress"
       /\ ret.result.is_duplicate
       /\ proceeds[ret.operation_id] = 1

C2_Step ==
    /\ (now' = now /\ ret'.call = "ensure_idempotent" /\ ret'.existing = NoRow)
       => /\ Len(operation_locks') = Len(operation_locks) + 1
          /\ operation_locks'[Len(operation_locks')].operation_id = ret'.operation_id
          /\ operation_locks'[Len(operation_locks')].status = "in_progress"
    /\ (ret'.call = "ensure_idempotent" /\ Found(ret'.existing)
          /\ ret'.existing.status = "in_progress")
       => operation_locks' = operation_locks

C2_EnsureTwice ==
    [](C2_FirstProceeds /\ C2_SecondDuplicate) /\ [][C2_Step]_vars

\* the second of two ensure calls has returned duplicate, in progress
C2_Witness ==
    /\ ret.call = "ensure_idempotent"
    /\ Found(ret.existing) /\ ret.existing.status = "in_progress"
    /\ ret.result.kind = "in_progress" /\ ret.result.is_duplicate
    /\ last_complete[ret.operation_id] = NoCall
    /\ proceeds[ret.operation_id] = 1

(* C3: when the last complete_operation that found the lock of an            *)
(* operation_id was complete(opId, R, success = true), an ensure_idempotent   *)
(* call for it returns duplicate with original_result = R, does not return   *)
(* proceed, and leaves the table of locks as it is.                          *)
CompletedWith(o) ==
    last_complete[o] # NoCall /\ last_complete[o].success

C3_Cached ==
    (ret.call = "ensure_idempotent" /\ CompletedWith(ret.operation_id))
    => /\ ret.result.kind = "completed"
       /\ ret.result.is_duplicate
       /\ ret.result.original_result = last_complete[ret.operation_id].result

C3_Step ==
    (ret'.call = "ensure_idempotent" /\ CompletedWith(ret'.operation_id))
    => operation_locks' = operation_locks

----------------------------------------------------------------------------
(* C4: a process_approval call on a request whose status is approved,        *)
(* rejected or expired returns the error "Approval already <status>", for    *)
(* every approver and decision, and changes no approval request.             *)
C4_OnResolved(call) ==
    /\ call.call = "process_approval"
    /\ Found(call.approval)
    /\ call.approval.status \in {"approved", "rejected", "expired"}

C4_Error ==
    C4_OnResolved(ret)
    => /\ ret.result.error = <<"Approval already ", ret.approval.status>>
       /\ QueryApproval(approval_requests, ret.approval_id) = ret.approval

C4_Step ==
    (now' = now /\ C4_OnResolved(ret'))
    => /\ approval_requests' = approval_requests
       /\ ret'.approval = QueryApproval(approval_requests, ret'.approval_id)

C4_AlreadyResolved == []C4_Error /\ [][C4_Step]_vars

\* an admin has tried to reject a request that was approved before
C4_Witness ==
    /\ C4_OnResolved(ret)
    /\ ret.approval.status = "approved"
    /\ ret.approver_id = "root" /\ ~ret.approved
    /\ ret.result.error = <<"Approval already ", "approved">>

(* C5: in every step every approval request stays in the table under its id; *)
(* its status either stays, or goes from pending to approved, rejected or    *)
(* expired; a request that is not pending is not changed at all.             *)
C5_Step ==
    /\ Len(approval_requests') >= Len(approval_requests)
    /\ \A i \in 1..Len(approval_requests) :
          LET old == approval_requests[i]
              new == approval_requests'[i]
          IN  /\ new.id = old.id
              /\ \/ new.status = old.status
                 \/ /\ old.status = "pending"
                    /\ new.status \in {"approved", "rejected", "expired"}
              /\ old.status # "pending" => new = old

C5_TerminalStatus == [][C5_Step]_vars

\* a process call by an admin on a rejected request has returned
C5_Witness ==
    /\ ret.call = "process_approval"
    /\ ret.approver_id = "root" /\ ret.approved
    /\ \E i \in 1..Len(approval_requests) :
          /\ approval_requests[i].id = ret.approval_id
          /\ approval_requests[i].status = "rejected"
          /\ ret.approval = approval_requests[i]

(* C6: a process_approval call on a pending request made after expires_at    *)
(* sets the status to expired and returns the expiry error, whoever the      *)
(* approver is; no request is approved or rejected at a time after its       *)
(* expires_at.                                                               *)
C6_AfterExpiry(call) ==
    /\ call.call = "process_approval"
    /\ Found(call.approval)
    /\ call.approval.status = "pending"
    /\ call.approval.expires_at < call.at

C6_Expires ==
    /\ C6_AfterExpiry(ret)
       => /\ ret.result.error = Text("Approval request has expired")
          /\ QueryApproval(approval_requests, ret.approval_id)
                = [ret.approval EXCEPT !.status = "expired"]
    /\ \A i \in 1..Len(approval_requests) :
          approval_requests[i].status \in {"approved", "rejected"}
          => approval_requests[i].resolved_at <= approval_requests[i].expires_at

\* an unknown approver's call after expires_at has expired the request
C6_Witness ==
    /\ C6_AfterExpiry(ret)
    /\ ret.approver_id = "ghost"
    /\ QueryApproval(approval_requests, ret.approval_id).status = "expired"

(* C7: a process_approval call on a pending request that has not expired, by *)
(* an approver to whom check_permission denies "approve:<action_type>",      *)
(* returns "Not authorized to approve this action" for either decision and   *)
(* leaves the request as it was: pending, no resolver, time or reason.       *)
C7_Denied(call) ==
    /\ call.call = "process_approval"
    /\ Found(call.approval)
    /\ call.approval.status = "pending"
    /\ ~(call.approval.expires_at < call.at)
    /\ ~CheckPermission(users, call.approver_id,
                        <<"approve", ":", call.approval.action_type>>).allowed

C7_NotAuthorized ==
    C7_Denied(ret)
    => /\ ret.result.error = Text("Not authorized to approve this action")
       /\ LET row == QueryApproval(approval_requests, ret.approval_id)
          IN  /\ row = ret.approval
              /\ row.status = "pending"
              /\ row.resolved_by = NULL
              /\ row.resolved_at = NoTime
              /\ row.resolution_reason = NoText

\* a manager has tried to approve a delete_data request
C7_Witness ==
    /\ C7_Denied(ret)
    /\ ret.approver_id = "mia" /\ ret.approved
    /\ ret.approval.action_type = "delete_data"
    /\ ret.approval.expires_at = ret.approval.requested_at + 48
    /\ ret.result.error = Text("Not authorized to approve this action")

(* C8: update_user_role on an existing user with a role of higher rank       *)
(* leaves the user's role and returns a new pending approval request of type *)
(* permission_change; with a role of equal or lower rank it sets the role    *)
(* and commits exactly one audit entry, update_role with outcome success.    *)
C8_Rank(role) ==
    CASE role = "viewer" -> 1 [] role = "contributor" -> 2
      [] role = "manager" -> 3 [] role = "admin" -> 4

C8_Call(call) == call.call = "update_user_role" /\ Found(call.user)

C8_State ==
    C8_Call(ret) =>
       IF C8_Rank(ret.new_role) > C8_Rank(ret.user.role)
       THEN /\ users[ret.user_id].role = ret.user.role
            /\ ret.result.status = "pending"
            /\ LET row == QueryApproval(approval_requests, ret.result.approval_id)
               IN  /\ Found(row)
                   /\ row.action_type = "permission_change"
                   /\ row.status = "pending"
                   /\ row.resource_id = Text(ret.user_id)
       ELSE /\ users[ret.user_id].role = ret.new_role
            /\ ret.result.status = "completed"
            /\ Len(audit_logs) > 0
            /\ LET e == audit_logs[Len(audit_logs)]
               IN  /\ e.action = "update_role"
                   /\ e.outcome = "success"
                   /\ e.resource_id = Text(ret.user_id)

C8_Step ==
    (now' = now /\ C8_Call(ret'))
    => IF C8_Rank(ret'.new_role) > C8_Rank(ret'.user.role)
       THEN /\ users' = users
            /\ Len(approval_requests') = Len(approval_requests) + 1
            /\ approval_requests'[Len(approval_requests')].id = ret'.result.approval_id
       ELSE /\ approval_requests' = approval_requests
            /\ Len(audit_logs') = Len(audit_logs) + 1
            /\ \A u \in DOMAIN users : u # ret'.user_id => users'[u] = users[u]

C8_UpdateRole == []C8_State /\ [][C8_Step]_vars

\* contributor -> admin is pending approval, then admin -> viewer was applied
C8_Witness ==
    /\ C8_Call(ret)
    /\ ret.user_id = "root" /\ ret.user.role = "admin" /\ ret.new_role = "viewer"
    /\ users["root"].role = "viewer"
    /\ \E i \in 1..Len(approval_requests) :
          /\ approval_requests[i].action_type = "permission_change"
          /\ approval_requests[i].resource_id = Text("cara")
          /\ approval_requests[i].status = "pending"
    /\ users["cara"].role = "contributor"

(* C9: for an active user without extra grants and a permission of the form  *)
(* category:name, check_permission allows exactly when the role's list has   *)
(* "*", the permission itself, or "category:*"; a viewer is denied           *)
(* "task:create".                                                            *)
C9_Call(call) ==
    /\ call.call = "check_permission"
    /\ Found(call.user)
    /\ call.user.is_active
    /\ call.user.permissions = NoText
    /\ Len(call.permission) = 3 /\ call.permission[2] = ":"

C9_Covered(role, permission) ==
    \/ <<"*">> \in ROLE_PERMISSIONS[role]
    \/ permission \in ROLE_PERMISSIONS[role]
    \/ <<permission[1], ":", "*">> \in ROLE_PERMISSIONS[role]

C9_RoleMatrix ==
    C9_Call(ret)
    => /\ ret.result.allowed <=> C9_Covered(ret.user.role, ret.permission)
       /\ (ret.user.role = "viewer" /\ ret.permission = <<"task", ":", "create">>)
          => ~ret.result.allowed

\* a manager was allowed "read:budget" by the category wildcard
C9_Witness ==
    /\ C9_Call(ret)
    /\ ret.user.role = "manager"
    /\ ret.permission = <<"read", ":", "budget">>
    /\ ret.result.allowed

(* C10: check_permission denies every permission to an unknown user id and   *)
(* to an inactive user, whatever the role and the extra grants.              *)
C10_UnknownOrInactive ==
    (ret.call = "check_permission"
        /\ (ret.user_id \notin DOMAIN users \/ ~users[ret.user_id].is_active))
    => ~ret.result.allowed

\* an inactive admin who holds "task:create" as an extra grant was denied it
C10_Witness ==
    /\ ret.call = "check_permission"
    /\ ret.user_id = "ina"
    /\ ret.permission = <<"task", ":", "create">>
    /\ users["ina"].role = "admin" /\ ~users["ina"].is_active
    /\ users["ina"].permissions = <<ret.permission>>
    /\ ~ret.result.allowed

----------------------------------------------------------------------------
(* C11: after a check_permission call that has returned denied, the table    *)
(* audit_logs holds an entry of action permission_check with outcome denied  *)
(* for the user id that was checked.                                         *)
C11_DeniedPersisted ==
    (ret.call = "check_permission" /\ ~ret.result.allowed)
    => \E i \in 1..Len(audit_logs) :
          /\ audit_logs[i].action = "permission_check"
          /\ audit_logs[i].outcome = "denied"
          /\ audit_logs[i].actor_id = ret.user_id

(* C12: on a key with no record, after save(key, v1), save(key, v2) and     *)
(* rollback(key) get(key) returns v1 with version 3, and after one more      *)
(* rollback(key) it returns v2 with version 4; a rollback that follows two   *)
(* or more writes of the key does not fail.                                  *)
C12_Saved(v) == [call |-> "save_state", value |-> v]

C12_RolledBack == [call |-> "rollback_state", value |-> PyNone]

C12_SaveSaveRollback ==
    /\ \A v1 \in StateValues, v2 \in StateValues :
          /\ (ret.call = "get_state"
                /\ state_calls[ret.key] = <<C12_Saved(v1), C12_Saved(v2), C12_RolledBack>>)
             => /\ ret.result.error = NoText
                /\ ret.result.value = v1
                /\ ret.result.version = 3
          /\ (ret.call = "get_state"
                /\ state_calls[ret.key] = <<C12_Saved(v1), C12_Saved(v2), C12_RolledBack,
                                            C12_RolledBack>>)
             => /\ ret.result.error = NoText
                /\ ret.result.value = v2
                /\ ret.result.version = 4
    /\ (ret.call = "rollback_state" /\ Len(state_calls[ret.key]) >= 2)
       => ret.result.error = NoText

\* get has returned (None, 4) after save({"status": "sent"}), save(None) and
\* two rollbacks
C12_Witness ==
    /\ ret.call = "get_state"
    /\ state_calls[ret.key] = <<C12_Saved(PySent), C12_Saved(PyNone), C12_RolledBack,
                                C12_RolledBack>>
    /\ ret.result.value = PyNone
    /\ ret.result.version = 4

(* C13: no step decreases the version of a record; a save or rollback that   *)
(* has written leaves the key's record at version 1 when the key had no      *)
(* record and at its version plus 1 otherwise; after a rollback is_rollback  *)
(* is set and rolled_back_from_version is the version that was replaced;     *)
(* after a save is_rollback is clear.                                        *)
C13_Step ==
    /\ \A i \in 1..Len(system_states) :
          system_states'[i].version >= system_states[i].version
    /\ \A k \in StateKeys :
          state_calls'[k] # state_calls[k]
          => LET old == QueryState(system_states, k)
                 new == QueryState(system_states', k)
                 c == state_calls'[k][Len(state_calls'[k])].call
             IN  /\ Found(new)
                 /\ new.version = IF Found(old) THEN old.version + 1 ELSE 1
                 /\ c = "rollback_state"
                    => /\ new.is_rollback
                       /\ new.rolled_back_from_version = old.version
                 /\ c = "save_state" => ~new.is_rollback

C13_VersionGrows == [][C13_Step]_vars

(* C14: a rollback_state call that read no record for its key, or a record   *)
(* whose previous_value is empty, returns an error and leaves every record   *)
(* as it is.                                                                 *)
C14_NothingToRestore(l) ==
    /\ l.call = "rollback_state"
    /\ (~Found(l.state) \/ l.state.previous_value = NULL)

C14_Step ==
    \A s \in Sessions :
        (sess[s].pc = "queried" /\ sess'[s].pc = "returned"
            /\ C14_NothingToRestore(sess[s]))
        => /\ sess'[s].result.error
                = IF Found(sess[s].state)
                  THEN Text("No previous version to rollback to")
                  ELSE Text("State not found")
           /\ system_states' = system_states
           /\ audit_logs' = audit_logs

C14_RollbackFails == [][C14_Step]_vars

\* a rollback of a key that was saved once has returned the error, and the
\* record is as the save left it
C14_Witness ==
    \E s \in Sessions :
        /\ sess[s].pc = "returned"
        /\ C14_NothingToRestore(sess[s])
        /\ Found(sess[s].state) /\ sess[s].state.version = 1
        /\ sess[s].result.error = Text("No previous version to rollback to")
        /\ state_calls[sess[s].key] = <<[call |-> "save_state", value |-> PySent]>>
        /\ QueryState(system_states, sess[s].key) = sess[s].state

(* C15: when two save_state or rollback_state calls have read the same       *)
(* record of a key and both have committed, the record as the second commit  *)
(* left it has the version that was read plus 2, and its previous_value is   *)
(* the value the first commit wrote.                                         *)
C15_NoLostUpdate ==
    \A s \in Sessions, t \in Sessions :
        (/\ s # t
         /\ sess[s].pc = "returned" /\ sess[t].pc = "returned"
         /\ sess[s].call \in StateCalls /\ sess[t].call \in StateCalls
         /\ sess[s].key = sess[t].key
         /\ Found(sess[s].state) /\ sess[s].state = sess[t].state
         /\ sess[s].result.error = NoText /\ sess[t].result.error = NoText
         /\ sess[s].commit_no < sess[t].commit_no)
        => /\ sess[t].committed.version = sess[s].state.version + 2
           /\ sess[t].committed.previous_value = sess[s].committed.value

(* C16: the table system_states never holds two records of one key.          *)
C16_OneRecordPerKey ==
    \A i \in 1..Len(system_states), j \in 1..Len(system_states) :
        i # j => system_states[i].key # system_states[j].key

----------------------------------------------------------------------------
(* C17: the operation is not invoked again after an error whose lower-cased  *)
(* message contains a fatal phrase; a run whose k-th invocation raised such  *)
(* an error returns success = false, fatal = true, attempts = k, having      *)
(* slept only after each of the k-1 earlier failures.                        *)
C17_FatalError(outcome) ==
    outcome.raised /\ outcome.error \in {UserNotFound, Forbidden, ConnectionInvalidated}

C17_Running == retry.pc \in {"loop", "returned"}

C17_StopsAtFatal ==
    C17_Running
    => /\ \A i \in 1..(Len(retry.outcomes) - 1) : ~C17_FatalError(retry.outcomes[i])
       /\ (Len(retry.outcomes) > 0
             /\ C17_FatalError(retry.outcomes[Len(retry.outcomes)]))
          => /\ retry.pc = "returned"
             /\ ~retry.result.success
             /\ retry.result.fatal
             /\ retry.result.error = retry.outcomes[Len(retry.outcomes)].error
             /\ retry.result.attempts = Len(retry.outcomes)
             /\ Len(retry.sleeps) = Len(retry.outcomes) - 1
             /\ \A j \in 1..Len(retry.sleeps) :
                   retry.sleeps[j].after < Len(retry.outcomes)

\* "User Not Found" on the second invocation has ended a run of up to 3
C17_Witness ==
    /\ retry.pc = "returned"
    /\ retry.outcomes = <<Raises(LockTimeout), Raises(UserNotFound)>>
    /\ retry.result.fatal /\ retry.result.attempts = 2
    /\ retry.sleeps = <<[after |-> 1, wait |-> 1]>>

(* C18: a run with max_retries = n >= 1 in which every invocation raised an  *)
(* error that is not fatal returns after exactly n invocations, with         *)
(* success = false and attempts = n, having slept n-1 times: 2^(i-1) after   *)
(* the i-th invocation, and not after the n-th.                              *)
C18_Transient(outcome) ==
    outcome.raised /\ outcome.error \in {ConnectionReset, LockTimeout}

C18_AllTransient ==
    \A i \in 1..Len(retry.outcomes) : C18_Transient(retry.outcomes[i])

C18_Pow2(i) == IF i = 0 THEN 1 ELSE IF i = 1 THEN 2 ELSE IF i = 2 THEN 4
               ELSE IF i = 3 THEN 8 ELSE IF i = 4 THEN 16 ELSE 32

C18_Backoff ==
    (/\ retry.pc = "returned"
     /\ retry.max_retries.given /\ retry.max_retries.n >= 1
     /\ C18_AllTransient)
    => /\ Len(retry.outcomes) = retry.max_retries.n
       /\ retry.sleeps = [i \in 1..(retry.max_retries.n - 1) |->
                             [after |-> i, wait |-> C18_Pow2(i - 1)]]
       /\ ~retry.result.success
       /\ ~retry.result.fatal
       /\ retry.result.attempts = retry.max_retries.n

\* three failed invocations with sleeps of 1 and 2 between them
C18_Witness ==
    /\ retry.pc = "returned"
    /\ retry.max_retries = GivenMaxRetries(3)
    /\ retry.outcomes = <<Raises(ConnectionReset), Raises(LockTimeout),
                          Raises(ConnectionReset)>>
    /\ retry.sleeps = <<[after |-> 1, wait |-> 1], [after |-> 2, wait |-> 2]>>
    /\ retry.result.attempts = 3 /\ ~retry.result.success

(* C19: a run that was given max_retries = n >= 0 invokes the operation at   *)
(* most n times, and when every invocation raised an error that is not fatal *)
(* it returns success = false with attempts = n.                             *)
C19_AtMostMaxRetries ==
    (C17_Running /\ retry.max_retries.given /\ retry.max_retries.n >= 0)
    => /\ Len(retry.outcomes) <= retry.max_retries.n
       /\ (retry.pc = "returned" /\ C18_AllTransient)
          => /\ ~retry.result.success
             /\ retry.result.attempts = retry.max_retries.n

(* C20: a run whose k-th invocation returned, after k-1 invocations that     *)
(* raised errors that are not fatal, returns success = true with the value   *)
(* the operation returned and attempts = k; the operation is not invoked     *)
(* after it has returned, and the run has slept only after the k-1 failures. *)
C20_Succeeded(outcomes) ==
    Len(outcomes) > 0 /\ ~outcomes[Len(outcomes)].raised

C20_ReturnsAtSuccess ==
    C17_Running
    => /\ \A i \in 1..(Len(retry.outcomes) - 1) : retry.outcomes[i].raised
       /\ C20_Succeeded(retry.outcomes)
          => /\ retry.pc = "returned"
             /\ retry.result.success
             /\ retry.result.result = retry.outcomes[Len(retry.outcomes)].value
             /\ retry.result.attempts = Len(retry.outcomes)
             /\ retry.result.attempts <= retry.retries
             /\ Len(retry.sleeps) = Len(retry.outcomes) - 1
             /\ \A j \in 1..Len(retry.sleeps) :
                   /\ retry.sleeps[j].after = j
                   /\ retry.sleeps[j].wait = C18_Pow2(j - 1)

\* the third invocation returned {"status": "sent"} after two failures
C20_Witness ==
    /\ retry.pc = "returned"
    /\ retry.outcomes = <<Raises(LockTimeout), Raises(ConnectionReset), Returns(PySent)>>
    /\ retry.result.success /\ retry.result.result = PySent
    /\ retry.result.attempts = 3
    /\ Len(retry.sleeps) = 2

----------------------------------------------------------------------------
(* C21: the audit log is append-only: every step of the governed operations
   leaves every existing audit entry as it was and removes none, so the log
   of a state is an extension of the log of every earlier state *)

C21_AppendOnly ==
    [][/\ Len(audit_logs') >= Len(audit_logs)
       /\ SubSeq(audit_logs', 1, Len(audit_logs)) = audit_logs]_vars

\* three entries written at two different times
C21_Witness ==
    /\ Len(audit_logs) >= 3
    /\ audit_logs[1].timestamp < audit_logs[3].timestamp
    /\ audit_logs[1].action # audit_logs[2].action

----------------------------------------------------------------------------
(* C22: every invocation of a governed operation (update_user_role,
   create_approval_request, process_approval, save_state, rollback_state)
   adds exactly one audit entry, and on a failing path the entry has outcome
   failure or denied and an error message *)

C22_Governed == {"update_user_role", "create_approval_request", "process_approval", "save_state", "rollback_state"}

C22_OneEntryPerCall ==
    [][(now' = now /\ ret'.call \in C22_Governed /\ ret' # ret) =>
          /\ Len(audit_logs') = Len(audit_logs) + 1
          /\ ret'.result.error # NoText =>
                /\ audit_logs'[Len(audit_logs')].outcome \in {"failure", "denied"}
                /\ audit_logs'[Len(audit_logs')].error_message # NoText]_vars

----------------------------------------------------------------------------
(* C23: get_audit_trail returns entries that all match every filter given
   (a filter that is None or empty matches everything), ordered by timestamp
   descending, and they are the min(limit, number of matches) most recent
   matching entries *)

C23_Matches(log) ==
    /\ ret.resource_type \notin {NULL, ""} => log.resource_type = ret.resource_type
    /\ ret.resource_id # NoText => log.resource_id = ret.resource_id
    /\ ret.actor_id \notin {NULL, ""} => log.actor_id = ret.actor_id

C23_Matching == {i \in 1..Len(ret.logs) : C23_Matches(ret.logs[i])}

C23_Min(a, b) == IF a < b THEN a ELSE b

C23_Trail ==
    ret.call = "get_audit_trail" =>
        /\ \A k \in DOMAIN ret.result : ret.result[k] \in C23_Matching
        /\ \A k \in DOMAIN ret.result, l \in DOMAIN ret.result :
              k # l => ret.result[k] # ret.result[l]
        /\ Len(ret.result) = C23_Min(ret.limit, Cardinality(C23_Matching))
        /\ \A k \in DOMAIN ret.result, l \in DOMAIN ret.result :
              k < l => ret.logs[ret.result[k]].timestamp >= ret.logs[ret.result[l]].timestamp
        /\ \A i \in C23_Matching, k \in DOMAIN ret.result :
              (\A l \in DOMAIN ret.result : ret.result[l] # i) =>
                  ret.logs[i].timestamp <= ret.logs[ret.result[k]].timestamp

\* a call filtered by actor whose limit cuts the older of two matching
\* entries
C23_Witness ==
    /\ ret.call = "get_audit_trail"
    /\ ret.actor_id = "ghost"
    /\ ret.limit = 1
    /\ Len(ret.result) = 1
    /\ Cardinality(C23_Matching) = 2
    /\ \E i \in C23_Matching : ret.logs[i].timestamp < ret.logs[ret.result[1]].timestamp

----------------------------------------------------------------------------
(* C24: get_pending_approvals returns exactly the requests whose status is
   pending and whose expires_at is later than the current time, from the
   most recently requested to the oldest, and changes no request *)

C24_Row(id) == QueryApproval(ret.approvals, id)

C24_Pending ==
    ret.call = "get_pending_approvals" =>
        /\ \A k \in DOMAIN ret.result :
              /\ C24_Row(ret.result[k]).status = "pending"
              /\ C24_Row(ret.result[k]).expires_at > ret.at
        /\ \A i \in DOMAIN ret.approvals :
              (ret.approvals[i].status = "pending" /\ ret.approvals[i].expires_at > ret.at)
                  => \E k \in DOMAIN ret.result : ret.result[k] = ret.approvals[i].id
        /\ \A k \in DOMAIN ret.result, l \in DOMAIN ret.result :
              k # l => ret.result[k] # ret.result[l]
        /\ \A k \in DOMAIN ret.result, l \in DOMAIN ret.result :
              k < l => C24_Row(ret.result[k]).requested_at >= C24_Row(ret.result[l]).requested_at
        /\ approval_requests = ret.approvals

\* two requests are listed newest first while no request is expired, and
\* the older one is left out once its expires_at is reached
C24_Witness ==
    /\ ret.call = "get_pending_approvals"
    /\ Len(ret.approvals) = 2
    /\ ret.approvals[1].requested_at < ret.approvals[2].requested_at
    /\ ret.approvals[1].status = "pending"
    /\ ret.approvals[1].expires_at = ret.at
    /\ ret.result = <<"2">>

----------------------------------------------------------------------------
(* C25: a lock left in_progress past its expires_at becomes eligible again:
   an ensure_idempotent on such a lock returns proceed, or leaves the lock
   so that the next ensure_idempotent returns proceed *)

C25_Stale(lock, t) == Found(lock) /\ lock.status = "in_progress" /\ lock.expires_at < t

C25_StaleReclaimed ==
    [][(/\ now' = now
        /\ ret' # ret
        /\ ret'.call = "ensure_idempotent"
        /\ C25_Stale(ret'.existing, now))
          => \/ Proceeded(ret'.result)
             \/ Proceeded(EnsureResult(QueryLock(operation_locks', ret'.operation_id),
                                       operation_locks', ret'.operation_id))]_vars

----------------------------------------------------------------------------
(* C26: operation_id is unique over the whole history: no two rows of
   operation_locks carry the same operation_id, and for each operation_id at
   most one ensure_idempotent call ever returned proceed, also after
   complete_operation(operation_id, result, success=False) *)

C26_UniqueForever ==
    /\ \A i \in DOMAIN operation_locks, j \in DOMAIN operation_locks :
          operation_locks[i].operation_id = operation_locks[j].operation_id => i = j
    /\ \A o \in OperationIds : proceeds[o] <= 1

\* an ensure_idempotent on a lock that complete_operation marked failed did
\* not proceed
C26_Witness ==
    /\ ret.call = "ensure_idempotent"
    /\ Found(ret.existing)
    /\ ret.existing.status = "failed"
    /\ ~Proceeded(ret.result)
    /\ proceeds[ret.operation_id] = 1
    /\ Len(operation_locks) = 2

----------------------------------------------------------------------------
(* C27: health_check always returns one of the three statuses: unhealthy
   when the datastore probe fails, otherwise degraded when the number of
   pending requests past expires_at or of in_progress locks past expires_at
   is greater than 0, otherwise healthy *)

C27_Status(probe_ok, checks) ==
    IF ~probe_ok THEN "unhealthy"
    ELSE IF checks.approvals.count > 0 \/ checks.operations.count > 0 THEN "degraded"
    ELSE "healthy"

C27_Health ==
    ret.call = "health_check" =>
        /\ ret.result.kind = "returned"
        /\ ret.result.status = C27_Status(ret.probe_ok, ret.result.checks)

----------------------------------------------------------------------------
(* C28: the mutating endpoints (PUT /users/{id}/role, POST /state/{key},
   POST /state/{key}/rollback) perform no mutation for a requesting
   principal to whom check_permission denies every permission *)

C28_DeniedAll(usrs, user_id) ==
    \A p \in Permissions : ~CheckPermission(usrs, user_id, p).allowed

C28_NoMutationWhenDenied ==
    [][(/\ now' = now
        /\ ret' # ret
        /\ ret'.call \in {"update_user_role", "save_state", "rollback_state"}
        /\ C28_DeniedAll(users, ret'.changed_by))
          => /\ users' = users
             /\ system_states' = system_states
             /\ approval_requests' = approval_requests]_vars

----------------------------------------------------------------------------
(* C29: when two process_approval calls by authorized approvers have both
   read the same unexpired pending request before either commits, at most
   one of them returns success, and the decision on a request is written at
   most once *)

C29_ReadPending(l) ==
    /\ l.pc = "returned"
    /\ Found(l.approval)
    /\ l.approval.status = "pending"

C29_Decisions(approval_id) ==
    {i \in DOMAIN audit_logs :
        /\ audit_logs[i].resource_type = "approval_request"
        /\ audit_logs[i].resource_id = Text(approval_id)}

C29_ResolvedOnce ==
    /\ \A s \in Sessions, t \in Sessions :
          (s # t /\ C29_ReadPending(sess[s]) /\ C29_ReadPending(sess[t])
             /\ sess[s].approval_id = sess[t].approval_id)
          => ~(sess[s].result.error = NoText /\ sess[t].result.error = NoText)
    /\ \A i \in ApprovalIds : Cardinality(C29_Decisions(i)) <= 1

----------------------------------------------------------------------------
(* C30: ensure_idempotent is total over lock states: for a lock that is
   absent, in_progress, completed or failed it returns proceed or duplicate
   and never ends in a datastore error *)

C30_EnsureTotal ==
    ret.call = "ensure_idempotent" =>
        ret.result.kind \in {"proceed", "completed", "in_progress"}

----------------------------------------------------------------------------
(* C31: execute_with_retry reports fatal = true only for an error of the
   authorization, not-found or invalid-input kind; a storage or network
   error is retried while attempts remain, whatever its message *)

C31_TransientKind == {ConnectionReset, LockTimeout, ConnectionInvalidated}

C31_TransientRetried ==
    C17_Running =>
        /\ retry.pc = "returned" /\ retry.result.fatal
              => retry.result.error \notin C31_TransientKind
        /\ \A i \in 1..Len(retry.outcomes) :
              (/\ retry.outcomes[i].raised
               /\ retry.outcomes[i].error \in C31_TransientKind
               /\ i < retry.retries)
                  => (i < Len(retry.outcomes) \/ retry.pc = "loop")

----------------------------------------------------------------------------
(* C32: POST /users creates no user when check_permission(x_user_id,
   "create:user") denies, whatever the value of the x-user-id header, the
   default "system" included *)

C32_DeniedCreatesNothing ==
    [][(/\ now' = now
        /\ ret' # ret
        /\ ret'.call = "create_user"
        /\ ~CheckPermission(users, ret'.x_user_id, Perm("create", "user")).allowed)
          => users' = users]_vars

----------------------------------------------------------------------------
(* C33: a completed lock is terminal: no later ensure_idempotent or
   complete_operation call changes its status or its stored result *)

C33_CompletedTerminal ==
    [][\A i \in DOMAIN operation_locks :
          operation_locks[i].status = "completed"
             => /\ i \in DOMAIN operation_locks'
                /\ operation_locks'[i].status = "completed"
                /\ operation_locks'[i].result = operation_locks[i].result]_vars

----------------------------------------------------------------------------
(* C34: complete_operation(operation_id, result, success) changes only the
   lock whose operation_id is operation_id; when there is no such lock it
   changes nothing, creates no lock and returns None *)

C34_Step ==
    (now' = now /\ ret'.call = "complete_operation")
       => /\ Len(operation_locks') = Len(operation_locks)
          /\ \A i \in DOMAIN operation_locks :
                /\ operation_locks'[i].operation_id = operation_locks[i].operation_id
                /\ operation_locks[i].operation_id # ret'.operation_id
                      => operation_locks'[i] = operation_locks[i]
          /\ ~Found(ret'.existing)
                => (operation_locks' = operation_locks /\ ret'.result = PyNone)
          /\ UNCHANGED <<users, approval_requests, audit_logs, system_states>>

C34_CompleteFrame == [][C34_Step]_vars

\* op1 was completed while the lock of op2 was in progress, and op2's lock
\* is as it was
C34_Witness ==
    /\ ret.call = "complete_operation"
    /\ ret.operation_id = "op1"
    /\ Found(ret.existing)
    /\ Len(operation_locks) = 2
    /\ QueryLock(operation_locks, "op1").status \in {"completed", "failed"}
    /\ QueryLock(operation_locks, "op2").status = "in_progress"

----------------------------------------------------------------------------
(* C35: no update_user_role, create_approval_request or process_approval
   call raises the role rank of a user: update_user_role writes the role
   only when the new rank is at most the current one, and approving the
   permission_change request of an escalation leaves the role as it is *)

C35_Step ==
    /\ \A u \in DOMAIN users :
          /\ u \in DOMAIN users'
          /\ RoleIndex(users'[u].role) <= RoleIndex(users[u].role)
    /\ (now' = now /\ ret'.call = "update_user_role" /\ users' # users)
          => RoleIndex(ret'.new_role) <= RoleIndex(users[ret'.user_id].role)
    /\ (now' = now /\ ret'.call = "process_approval") => users' = users

C35_RankNeverRaised == [][C35_Step]_vars

\* the escalation of cara to admin was requested and approved, and cara is
\* still a contributor
C35_Witness ==
    /\ ret.call = "process_approval"
    /\ ret.result.error = NoText
    /\ ret.approved
    /\ ret.approval.action_type = "permission_change"
    /\ ret.approval.resource_id = Text("cara")
    /\ approval_requests[1].status = "approved"
    /\ users["cara"].role = "contributor"

----------------------------------------------------------------------------
(* C36: when save_state and rollback_state run one at a time, the version
   stored for a key equals the number of audit entries with resource_type
   system_state and that key as resource_id: a save or rollback that succeeds
   commits the version change together with one audit entry, and a rollback
   that fails commits neither *)

C36_Version(states, key) ==
    IF Found(QueryState(states, key)) THEN QueryState(states, key).version ELSE 0

C36_Entries(audit, key) ==
    Cardinality({i \in DOMAIN audit :
                    /\ audit[i].resource_type = "system_state"
                    /\ audit[i].resource_id = Text(key)})

C36_Step ==
    (now' = now /\ ret' # ret /\ ret'.call \in {"save_state", "rollback_state"})
       => IF ret'.result.error = NoText
          THEN /\ C36_Version(system_states', ret'.key) = C36_Version(system_states, ret'.key) + 1
               /\ C36_Entries(audit_logs', ret'.key) = C36_Entries(audit_logs, ret'.key) + 1
               /\ Len(audit_logs') = Len(audit_logs) + 1
          ELSE system_states' = system_states /\ audit_logs' = audit_logs

C36_VersionCountsAudit ==
    /\ [](\A k \in StateKeys : C36_Version(system_states, k) = C36_Entries(audit_logs, k))
    /\ [][C36_Step]_vars

\* k2 was saved twice and rolled back, then a rollback of k1, saved once,
\* has failed
C36_Witness ==
    /\ ret.call = "rollback_state"
    /\ ret.key = "k1"
    /\ ret.result.error = Text("No previous version to rollback to")
    /\ C36_Version(system_states, "k1") = 1
    /\ C36_Version(system_states, "k2") = 3
    /\ QueryState(system_states, "k2").is_rollback
    /\ Len(audit_logs) = 4

----------------------------------------------------------------------------
(* C37: rollback keeps one level of history.  The second of two consecutive
   rollbacks of a key succeeds and restores the value and the previous value
   that held before the first, at version + 2; and once a key was saved as
   v1, v2, v3 (v1 different from v2 and v3), no run of rollbacks makes v1 its
   current value again *)

\* this step is a rollback of the key the last call rolled back
C37_SecondRollback ==
    /\ ret.call = "rollback_state"
    /\ ret.result.error = NoText
    /\ ret'.call = "rollback_state"
    /\ ret'.key = ret.key
    /\ ret' # ret

C37_Step ==
    C37_SecondRollback
       => /\ ret'.result.error = NoText
          /\ QueryState(system_states', ret.key).value = ret.state.value
          /\ QueryState(system_states', ret.key).previous_value = ret.state.previous_value
          /\ QueryState(system_states', ret.key).version = ret.state.version + 2

\* the calls of key from position i on are three saves and then rollbacks only
C37_ThreeSaves(key, i) ==
    LET h == state_calls[key] IN
    /\ i + 2 <= Len(h)
    /\ \A j \in i..(i + 2) : h[j].call = "save_state"
    /\ \A j \in (i + 3)..Len(h) : h[j].call = "rollback_state"
    /\ h[i].value \notin {h[i + 1].value, h[i + 2].value}

C37_OldestGone ==
    \A k \in StateKeys : \A i \in 1..Len(state_calls[k]) :
        C37_ThreeSaves(k, i)
           => LET h == state_calls[k]
                  row == QueryState(system_states, k)
                  rollbacks == Len(h) - (i + 2)
              IN /\ row.value # json_dumps(h[i].value)
                 /\ row.previous_value # json_dumps(h[i].value)
                 /\ row.value = json_dumps(h[IF rollbacks % 2 = 0 THEN i + 2 ELSE i + 1].value)

C37_OneLevelOfHistory ==
    []C37_OldestGone /\ [][C37_Step]_vars

\* k1 was saved with three different values and then rolled back twice
C37_Witness ==
    LET h == state_calls["k1"] IN
    /\ Len(h) = 5
    /\ C37_ThreeSaves("k1", 1)
    /\ h[2].value # h[3].value
    /\ ret.call = "rollback_state"
    /\ ret.key = "k1"
    /\ QueryState(system_states, "k1").value = json_dumps(h[3].value)
    /\ QueryState(system_states, "k1").version = 5

----------------------------------------------------------------------------
(* C38: at every instant, the instant now = expires_at included, a pending
   request that process_approval still accepts as unexpired is returned by
   get_pending_approvals, and every pending request get_pending_approvals
   omits is counted as expired by health_check *)

\* the pending requests get_pending_approvals omits
C38_Omitted ==
    {i \in DOMAIN approval_requests :
        /\ approval_requests[i].status = "pending"
        /\ ~IsListed(approval_requests[i], now)}

C38_ExpiryAgrees ==
    /\ \A i \in DOMAIN approval_requests :
           (approval_requests[i].status = "pending" /\ ~IsExpired(approval_requests[i], now))
              => IsListed(approval_requests[i], now)
    /\ HealthChecks(TRUE, approval_requests, operation_locks, now).approvals.count
          = Cardinality(C38_Omitted)

----------------------------------------------------------------------------
(* C39: extra grants match by exact string only.  For an active user whose
   role does not cover the permission, check_permission allows exactly when
   the permission itself is one of the user's extra grants; a grant "*" or
   "<category>:*" covers nothing but itself *)

\* the role's list covers the permission: "*", the permission itself, or the
\* wildcard of its category
C39_RoleCovers(role, permission) ==
    \/ Star \in ROLE_PERMISSIONS[role]
    \/ permission \in ROLE_PERMISSIONS[role]
    \/ CategoryWildcard(permission) \in ROLE_PERMISSIONS[role]

C39_Grants(user) == {user.permissions[i] : i \in 1..Len(user.permissions)}

C39_ExactGrantsOnly ==
    (/\ ret.call = "check_permission"
     /\ Found(ret.user)
     /\ ret.user.is_active
     /\ ~C39_RoleCovers(ret.user.role, ret.permission))
       => /\ ret.result.allowed <=> ret.permission \in C39_Grants(ret.user)
          /\ ret.result.allowed => ret.result.via = "user_permission"

\* a viewer granted "create:*" and "approve:delete_data" is denied create:user
C39_Witness ==
    /\ ret.call = "check_permission"
    /\ ret.user_id = "gail"
    /\ ret.user.role = "viewer"
    /\ Perm("create", "*") \in C39_Grants(ret.user)
    /\ ret.permission = Perm("create", "user")
    /\ ~ret.result.allowed

====
